---- MODULE Spec2Model ----
(***************************************************************************)
(* Model of the MeetingMind real-time channel.                             *)
(*                                                                         *)
(* useWebSocket (hooks/useWebSocket.ts) is modelled as a state machine:    *)
(* the hook's React state and refs are the variables, every entry point    *)
(* (connect, disconnect, sendAudio, sendMessage), every socket event       *)
(* handler (onopen, onmessage, onerror, onclose), the reconnect timer      *)
(* callback and the auto-connect effect is one action.                     *)
(*                                                                         *)
(* The platform WebSocket is modelled by its readyState per socket.  A     *)
(* failed connection delivers its error event and its close event in one   *)
(* event-loop task: closeDue names the socket whose close event is the     *)
(* next handler to run, and no other handler runs in between.              *)
(*                                                                         *)
(* useApiConfig and useAudioCapture (hooks/) are modelled the same way,    *)
(* each with its own specification: an async function is one action up to  *)
(* its await and one action per way the awaited promise settles; an effect *)
(* that a state change triggers is part of the action that changes the     *)
(* state.  MeetingPanel's effects compose the hooks (SpecPanel, SpecOrder). *)
(*                                                                         *)
(* StorageManager (utils/storage.ts) and PCMEncoder (utils/pcm-encoder.ts) *)
(* are pure: their conversions are operators computed step by step (JSON   *)
(* text, base64 digits, 16-bit codes and bytes), applied by the actions of *)
(* SpecStorage and SpecEncoder to inputs drawn from bounded sets.          *)
(***************************************************************************)
EXTENDS Integers, Sequences, FiniteSets, TLC

\* ------------------------------------------------------------------ bounds
MaxSockets == 2      \* sockets of one hook instance alive at the same time
MaxTimers  == 2      \* reconnect timers pending at the same time when timers are observed; one fewer otherwise
MaxCeiling == 3      \* largest config.reconnectAttempts explored
MaxAttempt == 8      \* largest attempt index fed to calculateBackoffDelay
MaxFrames  == 2      \* sendAudio calls recorded when the outbound order is observed
MaxMessages == 2     \* parsed inbound messages numbered when the inbound order is observed
MaxValidations == 2  \* credential validations that reach the backends in one run
MaxStarts  == 2      \* startRecording calls that reach the permission request in one run
MaxDuration == 2      \* largest recording duration (seconds) counted
MaxChars == 1         \* longest credential string (UTF-16 code units) passed to StorageManager
MaxSamples == 2       \* longest frame (samples) passed to PCMEncoder
MaxAuths == 2         \* auth messages handled on one server connection
MaxStoredSessions == 3  \* session ids kept by addSession (50 in the source), scaled

\* ------------------------------------------------- constants.ts:18-23
RECONNECT_ATTEMPTS  == 5
RECONNECT_DELAY     == 1000
MAX_RECONNECT_DELAY == 30000
BACKOFF_MULTIPLIER  == 2

WEBSOCKET_CONNECTION_FAILED == "Failed to connect to the server. Please check your internet connection."
INVALID_CREDENTIALS == "Invalid API credentials. Please check your NLS Token and DashScope API Key."
MICROPHONE_ACCESS_DENIED == "Microphone access denied. Please enable microphone permissions in your browser settings."

Null == "null"

VARIABLES
  config,                \* WebSocketConfig passed to the hook
  inbound,               \* environment: the payloads the peer sends on this channel
  connectionState,       \* useState: connecting | connected | disconnected | error
  lastMessage,           \* useState: last parsed inbound message, or NullMessage
  error,                 \* useState: error string, or Null
  wsRef,                 \* useRef: socket slot held by the hook, 0 = null
  reconnectTimeoutRef,   \* useRef: timer handle, 0 = null, -1 = handle of a timer that already fired
  reconnectAttemptsRef,  \* useRef: reconnect attempt counter
  reconnectDelayRef,     \* useRef: last computed delay
  isManuallyClosedRef,   \* useRef: disconnect() was the last lifecycle call
  sockets,               \* platform: slot -> state of the socket created by this hook
  timers,                \* platform: timer handle -> delay of the pending timeout, 0 = not pending
  closeDue,              \* platform: socket whose close event follows its error event in the same task
  lastOp,                \* history: the handler that ran last, with what it did
  sinceDisconnect,       \* history: disconnect() was called and connect() has not been called since
  run,                   \* history: the current run of consecutive non-manual closes
  backoff,               \* calculateBackoffDelay exercised alone: base, delays of attempts 0, 1, 2, ...
  tracing,               \* history: what is observed in this run: off | audio | inbound | timers
  outbound,              \* history: sendAudio calls (state at the call) and the frames put on the wire
  arrival,               \* history: number of parsed inbound messages, and the number of the one in lastMessage
  effectSeen,            \* MeetingPanel: the lastMessage value its effect last ran for (by arrival number)
  transcript,            \* MeetingPanel useState: transcript entries, each named by its arrival number
  credentials,           \* useApiConfig useState: the credentials in use, or NullCreds
  isValid,               \* useApiConfig useState
  isLoading,             \* useApiConfig useState
  apiError,              \* useApiConfig useState error: string, or Null
  apiMounted,            \* useApiConfig: the mount effect has run
  stored,                \* StorageManager: the credentials in localStorage, or NullCreds
  offered,               \* environment: the credentials the user may submit
  validations,           \* validateCredentials calls that reached the backends: state and pending promises
  lastApi,               \* history: the useApiConfig step that ran last
  isRecording,           \* useAudioCapture useState
  audioLevel,            \* useAudioCapture useState: level in percent
  captureError,          \* useAudioCapture useState error: string, or Null
  duration,              \* useAudioCapture useState: seconds
  mediaStreamRef,        \* useRef: the startRecording call whose stream is held, 0 = null
  audioContextRef,       \* useRef: the call whose AudioContext is held, 0 = null
  analyserRef,           \* useRef: the call whose analyser is held, 0 = null
  processorRef,          \* useRef: the call whose script processor is held, 0 = null
  durationIntervalRef,   \* useRef: the call after whose grant the held interval was set, 0 = null
  mounted,               \* React: the component using useAudioCapture is mounted
  sinkRegistered,        \* environment: onAudioData was passed to the hook
  mediaSupported,        \* environment: the browser has getUserMedia
  starts,                \* platform: per startRecording call, its request, stream, nodes and interval
  lastCap,               \* history: the useAudioCapture step that ran last
  localStorageItem,      \* localStorage: the value under STORAGE_KEYS.CREDENTIALS as base64 digits, <<>> = no item
  typed,                 \* environment: the credential pairs passed to StorageManager in this run
  lastStore,             \* history: the StorageManager call that ran last, with what it returned
  audioData,             \* PCMEncoder input: the samples of one frame
  lastPcm,               \* history: the PCMEncoder call that ran last, with what it returned
  sessionState,          \* server: the sessionState object of one WebSocket connection
  handlers,              \* server: handleAuthentication calls in flight: where each is suspended, its credentials
  sentAuthSuccess,       \* history: auth_success has been sent on this connection
  lastSrv,               \* history: the server step that ran last, with the reply it sent
  sessionsItem,          \* localStorage: the text under STORAGE_KEYS.SESSIONS, <<>> = no item
  inserted,              \* history: the ids in the list, in the order the add calls inserted them
  lastList               \* history: the session-list call that ran last, with the list it found

wsVars == <<config, inbound, connectionState, lastMessage, error, wsRef, reconnectTimeoutRef,
            reconnectAttemptsRef, reconnectDelayRef, isManuallyClosedRef,
            sockets, timers, closeDue, lastOp, sinceDisconnect, run, outbound, arrival>>

\* what the channel's handlers never touch
panelVars == <<effectSeen, transcript>>

apiVars == <<credentials, isValid, isLoading, apiError, apiMounted, stored, offered,
             validations, lastApi>>

captureVars == <<isRecording, audioLevel, captureError, duration, mediaStreamRef,
                 audioContextRef, analyserRef, processorRef, durationIntervalRef,
                 mounted, sinkRegistered, mediaSupported, starts, lastCap>>

storageVars == <<localStorageItem, typed, lastStore>>

encoderVars == <<audioData, lastPcm>>

serverVars == <<sessionState, handlers, sentAuthSuccess, lastSrv>>

sessionVars == <<sessionsItem, inserted, lastList>>

utilVars == <<storageVars, encoderVars, serverVars, sessionVars>>

others == <<backoff, tracing, panelVars, apiVars, captureVars, utilVars>>

vars == <<wsVars, others>>

hookVars == <<connectionState, lastMessage, error, wsRef, reconnectTimeoutRef,
              reconnectAttemptsRef, reconnectDelayRef, isManuallyClosedRef>>

Slots    == 1..MaxSockets
TimerIds == 1..MaxTimers

\* ------------------------------------------------------------ pure helpers
Min(a, b) == IF a < b THEN a ELSE b

RECURSIVE Pow(_, _)
Pow(b, e) == IF e = 0 THEN 1 ELSE b * Pow(b, e - 1)

\* `x || d` on numbers: 0 is falsy
OrDefault(x, d) == IF x = 0 THEN d ELSE x

\* WebSocket.readyState of a slot
ReadyState(s) ==
  CASE sockets[s] = "ABORTING" -> "CLOSING"
    [] OTHER -> sockets[s]

\* wsRef.current?.readyState === WebSocket.OPEN
WsOpen == wsRef # 0 /\ ReadyState(wsRef) = "OPEN"

\* new WebSocket(url) throws a SyntaxError on a URL that is not ws:/wss:
UrlValid(url) == url = "ws://localhost:8080/ws"

LiveSockets  == {s \in Slots : sockets[s] \in {"CONNECTING", "OPEN"}}
FreeSlots    == {s \in Slots : sockets[s] = "NONE"}
PendingTimers == {t \in TimerIds : timers[t] # 0}
TimerLimit    == IF tracing = "timers" THEN MaxTimers ELSE MaxTimers - 1
FreeTimers    == {t \in TimerIds : timers[t] = 0 /\ t <= TimerLimit}

calculateBackoffDelayOf_linear(base, attempt) ==
  Min(OrDefault(base, RECONNECT_DELAY) * (attempt + 1), MAX_RECONNECT_DELAY)

calculateBackoffDelayOf_uncapped(base, attempt) ==
  OrDefault(base, RECONNECT_DELAY) * Pow(BACKOFF_MULTIPLIER, attempt)

calculateBackoffDelayOf(base, attempt) ==
  LET baseDelay  == OrDefault(base, RECONNECT_DELAY)
      maxDelay   == MAX_RECONNECT_DELAY
      multiplier == BACKOFF_MULTIPLIER
      delay      == baseDelay * Pow(multiplier, attempt)
  IN  Min(delay, maxDelay)

calculateBackoffDelay(attempt) == calculateBackoffDelayOf(config.reconnectDelay, attempt)

maxAttempts == OrDefault(config.reconnectAttempts, RECONNECT_ATTEMPTS)

NoPayload == [kind |-> "none", data |-> ""]
NoOp == [op |-> "init", sock |-> 0, payload |-> NoPayload, sent |-> FALSE, threw |-> FALSE]

\* JavaScript null as a message value
NullMessage == [json |-> "null", type |-> "undefined"]
NoRun == [origin |-> "none", closes |-> 0, delays |-> <<>>]

\* Inbound payloads: text frames and binary frames.
TextPayloads ==
  { "{\"type\":\"transcript\"}", "{\"type\":\"pong\"}",
    "{\"sessionId\":\"s1\"}", "42", "null", "{type:" }

Payloads ==
  [kind : {"string"}, data : TextPayloads] \cup [kind : {"binary"}, data : {"pcm"}]

\* The peers explored: one that sends transcripts only, under every
\* configuration, and one that sends every payload, under one configuration.
TranscriptsOnly == [kind : {"string"}, data : {"{\"type\":\"transcript\"}"}]

Peers(cfg) ==
  IF cfg.reconnectAttempts = 1 /\ UrlValid(cfg.url)
  THEN {TranscriptsOnly, Payloads}
  ELSE {TranscriptsOnly}

\* ------------------------------------------------ useApiConfig: values
\* Credential strings.  What the backends do with a credential is fixed:
\* the token names the fate of the test handshake, the key names the
\* response of the probe request.
Tokens == {"tok-opens", "tok-refused", "tok-silent", "tok#frag", "  "}
Keys   == {"key-200", "key-401", "key-500", "key-offline", ""}

Creds == [nlsToken : Tokens, dashScopeKey : Keys]

\* JavaScript null as a credentials value
NullCreds == [nlsToken |-> "null", dashScopeKey |-> "null"]

\* String.prototype.trim on the strings above
Trim(str) == IF str \in {"", " ", "  "} THEN "" ELSE str

\* new WebSocket(url?token=...): a URL with a fragment throws SyntaxError;
\* otherwise the gateway accepts the handshake, refuses it, or stays silent
\* beyond the 5000 ms timeout.
Handshake(token) ==
  CASE token = "tok-opens"   -> "open"
    [] token = "tok-refused" -> "error"
    [] token = "tok-silent"  -> "timeout"
    [] OTHER                 -> "throws"

\* fetch(DASHSCOPE_API): the response status, or a rejected promise
Probe(key) ==
  CASE key = "key-200" -> "200"
    [] key = "key-401" -> "401"
    [] key = "key-500" -> "500"
    [] OTHER           -> "network error"

\* the promise of validateNLSToken resolves true only from onopen
NlsResolves(outcome) == outcome = "open"

\* return response.status !== 401; catch { return true }
DashScopeResolves_strict(outcome) == outcome = "200"
DashScopeResolves(outcome) ==
  IF outcome = "network error" THEN TRUE ELSE outcome # "401"

ValidationIds == 1..MaxValidations

\* One validateCredentials call that reached the backends: st is none |
\* running | done; nls and ds are the two promises; by is the entry point
\* that made the call and doneBefore the calls that had completed when it
\* was made; valid and err are isValid and error as the call left them.
NoValidation == [st |-> "none", creds |-> NullCreds, nls |-> "pending", ds |-> "pending",
                 by |-> "none", doneBefore |-> {}, valid |-> FALSE, err |-> Null]
NoApiOp == [op |-> "init", v |-> 0, creds |-> NullCreds, ret |-> "none"]

InitApi ==
  /\ credentials = NullCreds
  /\ isValid = FALSE
  /\ isLoading = FALSE
  /\ apiError = Null
  /\ apiMounted = FALSE
  /\ validations = [v \in ValidationIds |-> NoValidation]
  /\ lastApi = NoApiOp

\* --------------------------------------------- useAudioCapture: values
CallIds == 1..MaxStarts

\* One startRecording call: st is none | pending (suspended at getUserMedia)
\* | granted | denied | failed; rec is isRecording as the call's closure sees
\* it; track is the stream's track: none | live | ended | stopped; stops
\* counts track.stop(); nodes is the audio graph: none | connected | closed;
\* interval says that the interval set after this call's grant is running.
NoStart == [st |-> "none", rec |-> FALSE, track |-> "none", stops |-> 0,
            nodes |-> "none", interval |-> FALSE]

\* Frames the script processor delivers, with the level processAudioBuffer
\* reports for them; levels are percentages.
Frames == {[pcm |-> "silence", level |-> 0], [pcm |-> "voice", level |-> 40]}
Levels == {0, 40}

\* Rejections of getUserMedia
Rejections == {"NotAllowedError", "PermissionDeniedError", "NotFoundError"}

NoCapOp == [op |-> "init", call |-> 0, name |-> "", again |-> FALSE, sunk |-> FALSE,
            levelSet |-> FALSE, threw |-> FALSE]

InitCaptureHook ==
  /\ isRecording = FALSE
  /\ audioLevel = 0
  /\ captureError = Null
  /\ duration = 0
  /\ mediaStreamRef = 0
  /\ audioContextRef = 0
  /\ analyserRef = 0
  /\ processorRef = 0
  /\ durationIntervalRef = 0
  /\ mounted = TRUE
  /\ starts = [c \in CallIds |-> NoStart]
  /\ lastCap = NoCapOp

IdleCapture ==
  /\ InitCaptureHook
  /\ sinkRegistered = TRUE
  /\ mediaSupported = TRUE

\* ------------------------------------------------------ StorageManager
\* Strings are sequences of UTF-16 code units.  The alphabet has a space,
\* the two characters JSON.stringify escapes, an ASCII letter, a Latin-1
\* letter and a character above U+00FF.
Alphabet == {32, 34, 65, 92, 233, 23494}

RECURSIVE StringsOf(_)
StringsOf(n) ==
  IF n = 0 THEN {<<>>}
  ELSE LET shorter == StringsOf(n - 1)
       IN  shorter \cup {Append(str, ch) : str \in {x \in shorter : Len(x) = n - 1}, ch \in Alphabet}

Strings == StringsOf(MaxChars)
Pairs == [nlsToken : Strings, dashScopeKey : Strings]

\* String.prototype.trim on code units: the space is the only white space
\* of the alphabet.
RECURSIVE TrimUnits(_)
TrimUnits(str) ==
  IF str = <<>> THEN <<>>
  ELSE IF Head(str) = 32 THEN TrimUnits(Tail(str))
  ELSE IF str[Len(str)] = 32 THEN TrimUnits(SubSeq(str, 1, Len(str) - 1))
  ELSE str

\* JSON.stringify of a string: quoted, with " and \ escaped by a backslash.
RECURSIVE Escaped(_)
Escaped(str) ==
  IF str = <<>> THEN <<>>
  ELSE (IF Head(str) \in {34, 92} THEN <<92, Head(str)>> ELSE <<Head(str)>>) \o Escaped(Tail(str))

Quoted(str) == <<34>> \o Escaped(str) \o <<34>>

NlsTokenName     == <<110, 108, 115, 84, 111, 107, 101, 110>>
DashScopeKeyName == <<100, 97, 115, 104, 83, 99, 111, 112, 101, 75, 101, 121>>

\* JSON.stringify(credentials): {"nlsToken":"...","dashScopeKey":"..."}
JSONStringify(c) ==
  <<123>> \o Quoted(NlsTokenName) \o <<58>> \o Quoted(c.nlsToken) \o <<44>>
          \o Quoted(DashScopeKeyName) \o <<58>> \o Quoted(c.dashScopeKey) \o <<125>>

\* btoa throws InvalidCharacterError for a code unit above 255.
BtoaThrows(text) == \E i \in 1..Len(text) : text[i] > 255

\* base64 digits are kept by value: 0..63, and Pad for '='
Pad == 64

RECURSIVE Btoa(_)
Btoa(bytes) ==
  IF bytes = <<>> THEN <<>>
  ELSE LET n  == Len(bytes)
           b0 == bytes[1]
           b1 == IF n >= 2 THEN bytes[2] ELSE 0
           b2 == IF n >= 3 THEN bytes[3] ELSE 0
       IN  << b0 \div 4,
              (b0 % 4) * 16 + b1 \div 16,
              IF n >= 2 THEN (b1 % 16) * 4 + b2 \div 64 ELSE Pad,
              IF n >= 3 THEN b2 % 64 ELSE Pad >>
           \o (IF n > 3 THEN Btoa(SubSeq(bytes, 4, n)) ELSE <<>>)

AtobThrows(digits) == Len(digits) % 4 # 0

RECURSIVE Atob(_)
Atob(digits) ==
  IF Len(digits) < 4 THEN <<>>
  ELSE LET d0 == digits[1]
           d1 == digits[2]
           d2 == digits[3]
           d3 == digits[4]
       IN  <<d0 * 4 + d1 \div 16>>
           \o (IF d2 # Pad THEN <<(d1 % 16) * 16 + d2 \div 4>> ELSE <<>>)
           \o (IF d2 # Pad /\ d3 # Pad THEN <<(d2 % 4) * 64 + d3>> ELSE <<>>)
           \o Atob(SubSeq(digits, 5, Len(digits)))

\* A JSON string literal starting at text[i]: its value and the position
\* after its closing quote; ok is false when the text is not a literal.
RECURSIVE StringBody(_, _, _)
StringBody(text, i, acc) ==
  IF i > Len(text) THEN [ok |-> FALSE, value |-> acc, next |-> i]
  ELSE IF text[i] = 34 THEN [ok |-> TRUE, value |-> acc, next |-> i + 1]
  ELSE IF text[i] = 92
       THEN IF i + 1 <= Len(text) /\ text[i + 1] \in {34, 92, 47}
            THEN StringBody(text, i + 2, Append(acc, text[i + 1]))
            ELSE [ok |-> FALSE, value |-> acc, next |-> i]
  ELSE StringBody(text, i + 1, Append(acc, text[i]))

StringLiteral(text, i) ==
  IF i <= Len(text) /\ text[i] = 34
  THEN StringBody(text, i + 1, <<>>)
  ELSE [ok |-> FALSE, value |-> <<>>, next |-> i]

At(text, i, ch) == i <= Len(text) /\ text[i] = ch

\* JSON.parse of an object with two string members: <<object>>, or <<>>
\* when JSON.parse throws.
ParseCredentials(text) ==
  LET k1 == StringLiteral(text, 2)
      v1 == StringLiteral(text, k1.next + 1)
      k2 == StringLiteral(text, v1.next + 1)
      v2 == StringLiteral(text, k2.next + 1)
  IN  IF /\ At(text, 1, 123)
         /\ k1.ok /\ At(text, k1.next, 58)
         /\ v1.ok /\ At(text, v1.next, 44)
         /\ k2.ok /\ At(text, k2.next, 58)
         /\ v2.ok /\ At(text, v2.next, 125) /\ v2.next = Len(text)
         /\ {k1.value, k2.value} = {NlsTokenName, DashScopeKeyName}
      THEN << [nlsToken     |-> IF k1.value = NlsTokenName THEN v1.value ELSE v2.value,
               dashScopeKey |-> IF k1.value = DashScopeKeyName THEN v1.value ELSE v2.value] >>
      ELSE <<>>

\* A pair the store may already hold when a run begins.
KnownPair == [nlsToken |-> <<65>>, dashScopeKey |-> <<65>>]

NoStoreOp == [op |-> "init", arg |-> <<>>, refused |-> FALSE, threw |-> FALSE, ret |-> <<>>]

IdleStorage ==
  /\ localStorageItem = <<>>
  /\ typed = {}
  /\ lastStore = NoStoreOp

\* ---------------------------------------------------------- PCMEncoder
\* A sample is a float: NaN, or the number q / Unit.  The frames explored
\* hold -2, -1, -0.001, 0, 0.001, 1, 2 and NaN; every sum and half sum of
\* two of them is again a multiple of 1 / Unit.
Unit == 2000

NaN == [nan |-> TRUE, q |-> 0]
Number(q) == [nan |-> FALSE, q |-> q]

SampleValues == {NaN} \cup {Number(q) : q \in {-4000, -2000, -2, 0, 2, 2000, 4000}}

RECURSIVE FramesOf(_, _)
FramesOf(values, n) ==
  IF n = 0 THEN {<<>>}
  ELSE LET shorter == FramesOf(values, n - 1)
       IN  shorter \cup {Append(f, x) : f \in {g \in shorter : Len(g) = n - 1}, x \in values}

Float32Arrays == FramesOf(SampleValues, MaxSamples)

\* the second channel of a stereo frame
RightChannels == FramesOf({NaN, Number(-2000), Number(2), Number(4000)}, MaxSamples)

MinOf(a, b) == IF a < b THEN a ELSE b
MaxOf(a, b) == IF a > b THEN a ELSE b

\* Math.max(-1, Math.min(1, x)); both return NaN for NaN
Clamp_none(x) == x
Clamp(x) == IF x.nan THEN x ELSE Number(MaxOf(-Unit, MinOf(Unit, x.q)))

\* sample < 0 ? sample * 0x8000 : sample * 0x7FFF, as a multiple of 1 / Unit
PcmSample(x) == IF x.nan THEN x ELSE Number(IF x.q < 0 THEN x.q * 32768 ELSE x.q * 32767)

\* ToInt16 of DataView.setInt16: NaN is 0; else truncate toward zero and
\* wrap modulo 2^16.  The result is the 16-bit pattern, 0..65535.
ToInt16(x) ==
  IF x.nan THEN 0
  ELSE LET t == IF x.q < 0 THEN -((-x.q) \div Unit) ELSE x.q \div Unit
       IN  t % 65536

\* dataView.setInt16(i * 2, pcmSample, true): low byte first
SetInt16_bigEndian(bits) == <<bits \div 256, bits % 256>>
SetInt16(bits) == <<bits % 256, bits \div 256>>

RECURSIVE encode(_)
encode(data) ==
  IF data = <<>> THEN <<>>
  ELSE SetInt16(ToInt16(PcmSample(Clamp(Head(data))))) \o encode(Tail(data))

\* (leftChannel[i] + rightChannel[i]) / 2
Mean(l, r) == IF l.nan \/ r.nan THEN NaN ELSE Number((l.q + r.q) \div 2)

stereoToMono_left(leftChannel, rightChannel) == leftChannel
stereoToMono(leftChannel, rightChannel) ==
  [i \in 1..MinOf(Len(leftChannel), Len(rightChannel)) |-> Mean(leftChannel[i], rightChannel[i])]

\* A root mean square is kept by its square: NaN, or sqrt(sumSq / (n * Unit^2)).
NaNRms == [nan |-> TRUE, sumSq |-> 0, n |-> 0]

RECURSIVE SumOfSquares(_)
SumOfSquares(data) ==
  IF data = <<>> THEN 0 ELSE Head(data).q * Head(data).q + SumOfSquares(Tail(data))

\* Math.sqrt(sum / audioData.length): 0 / 0 is NaN
calculateRMS(data) ==
  IF data = <<>> \/ \E i \in 1..Len(data) : data[i].nan
  THEN NaNRms
  ELSE [nan |-> FALSE, sumSq |-> SumOfSquares(data), n |-> Len(data)]

RECURSIVE Pow10(_)
Pow10(k) == IF k = 0 THEN 1 ELSE 10 * Pow10(k - 1)

\* rms^2 >= 10^j, for j in -6..1: sumSq >= 10^j * Unit^2 * n
AtLeastPow10(rms, j) == rms.sumSq >= 4 * Pow10(j + 6) * rms.n
IsPow10(rms, j)      == rms.sumSq  = 4 * Pow10(j + 6) * rms.n

\* A decibel value is NaN, -Infinity, or a finite number kept by
\* floor10 = floor(db / 10) = floor(log10(rms^2)) and whether db = 10 * floor10;
\* floor10 = -7 stands for every value below -60 dB.
NaNDb == [kind |-> "NaN", floor10 |-> 0, exact |-> FALSE]

calculateDecibels(rms) ==
  IF rms.nan THEN NaNDb
  ELSE IF rms.sumSq = 0 THEN [kind |-> "-Infinity", floor10 |-> 0, exact |-> FALSE]
  ELSE IF ~AtLeastPow10(rms, -6) THEN [kind |-> "finite", floor10 |-> -7, exact |-> FALSE]
  ELSE LET j == CHOOSE k \in -6..1 :
                  AtLeastPow10(rms, k) /\ (k < 1 => ~AtLeastPow10(rms, k + 1))
       IN  [kind |-> "finite", floor10 |-> j, exact |-> IsPow10(rms, j)]

\* A level is NaN, or a number in [sixths / 6, (sixths + 1) / 6), equal to
\* sixths / 6 when exact.
NaNLevel == [nan |-> TRUE, sixths |-> 0, exact |-> FALSE]
Level(sixths, exact) == [nan |-> FALSE, sixths |-> sixths, exact |-> exact]

normalizeAudioLevel(rms) ==
  LET db == calculateDecibels(rms)
  IN  IF \/ db.kind = "-Infinity"
         \/ db.kind = "finite" /\ (db.floor10 < -6 \/ (db.floor10 = -6 /\ db.exact))
      THEN Level(0, TRUE)
      ELSE IF db.kind = "finite" /\ db.floor10 >= 0
      THEN Level(6, TRUE)
      ELSE IF db.kind = "NaN" THEN NaNLevel
      ELSE Level(db.floor10 + 6, db.exact)

NoPcmOp == [op |-> "init", right |-> <<>>, bytes |-> <<>>, mono |-> <<>>,
            rms |-> NaNRms, level |-> NaNLevel]

IdleEncoder ==
  /\ audioData = <<>>
  /\ lastPcm = NoPcmOp

\* ------------------------------------------- StorageManager: sessions
\* Session ids are strings; some hold a character JSON.stringify escapes.
SessionIds == {<<65>>, <<34>>, <<92>>, <<65, 34>>, <<233>>}

\* JSON.stringify(sessionIds): ["...","..."]
RECURSIVE Joined(_)
Joined(ids) ==
  IF ids = <<>> THEN <<>>
  ELSE Quoted(Head(ids)) \o (IF Len(ids) > 1 THEN <<44>> \o Joined(Tail(ids)) ELSE <<>>)

StringifySessions(ids) == <<91>> \o Joined(ids) \o <<93>>

\* JSON.parse of an array of strings; ok is false when JSON.parse throws.
RECURSIVE ParseItems(_, _, _)
ParseItems(text, i, acc) ==
  LET lit == StringLiteral(text, i)
  IN  IF ~lit.ok THEN [ok |-> FALSE, value |-> <<>>]
      ELSE IF At(text, lit.next, 44)
           THEN ParseItems(text, lit.next + 1, Append(acc, lit.value))
      ELSE IF At(text, lit.next, 93) /\ lit.next = Len(text)
           THEN [ok |-> TRUE, value |-> Append(acc, lit.value)]
      ELSE [ok |-> FALSE, value |-> <<>>]

ParseSessions(text) ==
  IF text = <<91, 93>> THEN [ok |-> TRUE, value |-> <<>>]
  ELSE IF At(text, 1, 91) THEN ParseItems(text, 2, <<>>)
  ELSE [ok |-> FALSE, value |-> <<>>]

\* StorageManager.getSessions(): [] for no item and when JSON.parse throws
getSessions(item) ==
  IF item = <<>> THEN <<>>
  ELSE LET parsed == ParseSessions(item)
       IN  IF parsed.ok THEN parsed.value ELSE <<>>

\* sessions.includes(sessionId)
Includes(sessions, sessionId) == \E i \in 1..Len(sessions) : sessions[i] = sessionId

\* The list addSession saves: unshift, then splice at the capacity.
addSession_push(sessions, sessionId) ==
  LET pushed == Append(sessions, sessionId)
  IN  IF Len(pushed) > MaxStoredSessions
      THEN SubSeq(pushed, 1, MaxStoredSessions)
      ELSE pushed

addSession(sessions, sessionId) ==
  LET unshifted == <<sessionId>> \o sessions
  IN  IF Len(unshifted) > MaxStoredSessions
      THEN SubSeq(unshifted, 1, MaxStoredSessions)
      ELSE unshifted

\* sessions.filter(id => id !== sessionId)
removeSession(sessions, sessionId) ==
  LET Kept(id) == id # sessionId
  IN  SelectSeq(sessions, Kept)

NoListOp == [op |-> "init", id |-> <<>>, before |-> <<>>, threw |-> FALSE]

IdleSessions ==
  /\ sessionsItem = <<>>
  /\ inserted = <<>>
  /\ lastList = NoListOp

\* ------------------------------------------- server WebSocket handler
\* The credentials member of an auth message: absent, or a pair of strings.
NoCredentials == [nlsToken |-> "undefined", dashScopeKey |-> "undefined"]

AuthCredentials ==
  {NoCredentials} \cup [nlsToken : {"tok-opens", "tok-refused", ""},
                        dashScopeKey : {"key-200", "key-401", ""}]

HandlerIds == 1..MaxAuths

\* One handleAuthentication call: pc is none | nls (awaiting
\* validateNLSToken) | ds (awaiting validateDashScopeKey) | init (awaiting
\* initializeNLSConnection) | done.
NoHandler == [pc |-> "none", creds |-> NoCredentials]

\* const sessionState = { nlsToken: null, dashScopeKey: null,
\*                        nlsWebSocket: null, isAuthenticated: false }
NewSession == [nlsToken |-> "null", dashScopeKey |-> "null", nlsWebSocket |-> 0,
               isAuthenticated |-> FALSE]

NoSrvOp == [op |-> "init", h |-> 0, reply |-> "none", backend |-> FALSE]

IdleServer ==
  /\ sessionState = NewSession
  /\ handlers = [h \in HandlerIds |-> NoHandler]
  /\ sentAuthSuccess = FALSE
  /\ lastSrv = NoSrvOp

IdleUtils == IdleStorage /\ IdleEncoder /\ IdleServer /\ IdleSessions

\* ---------------------------------------------------------------- Init
Configs ==
  [url : {"ws://localhost:8080/ws", "not a url"},
   reconnectAttempts : 1..MaxCeiling,
   reconnectDelay : {1000}]

NoBackoff == [base |-> 0, delays |-> <<>>]
NoOutbound == [calls |-> <<>>, wire |-> <<>>]
NoArrival == [count |-> 0, last |-> 0]

InitHook ==
  /\ connectionState = "disconnected"
  /\ lastMessage = NullMessage
  /\ error = Null
  /\ wsRef = 0
  /\ reconnectTimeoutRef = 0
  /\ reconnectAttemptsRef = 0
  /\ reconnectDelayRef = OrDefault(config.reconnectDelay, RECONNECT_DELAY)
  /\ isManuallyClosedRef = FALSE
  /\ sockets = [s \in Slots |-> "NONE"]
  /\ timers = [t \in TimerIds |-> 0]
  /\ closeDue = 0
  /\ lastOp = NoOp
  /\ sinceDisconnect = FALSE
  /\ run = NoRun
  /\ outbound = NoOutbound
  /\ arrival = NoArrival
  /\ effectSeen = 0
  /\ transcript = <<>>

Init ==
  /\ config \in Configs
  /\ inbound \in Peers(config)
  /\ InitHook
  /\ backoff = NoBackoff
  /\ tracing = "off"
  /\ InitApi
  /\ IdleUtils
  /\ IdleCapture
  /\ stored = NullCreds
  /\ offered = {}

\* ------------------------------------------------------- handleConnect
\* The body of handleConnect; the caller says what happens to the rest.
HandleConnect ==
  IF WsOpen
  THEN UNCHANGED <<connectionState, error, isManuallyClosedRef, wsRef, sockets>>
  ELSE /\ isManuallyClosedRef' = FALSE
       /\ IF UrlValid(config.url)
          THEN /\ FreeSlots # {}
               /\ LET s == CHOOSE x \in FreeSlots : \A y \in FreeSlots : x <= y
                  IN  /\ sockets' = [sockets EXCEPT ![s] = "CONNECTING"]
                      /\ wsRef' = s
               /\ connectionState' = "connecting"
               /\ error' = Null
          ELSE /\ connectionState' = "error"
               /\ error' = "Failed to create WebSocket connection"
               /\ UNCHANGED <<wsRef, sockets>>

\* connect() called by the consumer
Connect ==
  /\ closeDue = 0
  /\ HandleConnect
  /\ lastOp' = [NoOp EXCEPT !.op = "connect"]
  /\ sinceDisconnect' = FALSE
  /\ run' = IF /\ connectionState = "disconnected"
               /\ \A s \in Slots : sockets[s] = "NONE"
               /\ PendingTimers = {}
               /\ reconnectAttemptsRef = 0
               /\ UrlValid(config.url)
            THEN [origin |-> "connect", closes |-> 0, delays |-> <<>>]
            ELSE NoRun
  /\ UNCHANGED <<others, config, inbound, outbound, arrival, lastMessage, reconnectTimeoutRef, reconnectAttemptsRef,
                 reconnectDelayRef, timers, closeDue>>

\* useEffect at the end of the hook: runs after a render in which the
\* dependencies changed; MeetingPanel passes a fresh config object on every
\* render, so it runs after every render.
AutoConnectEffect ==
  /\ closeDue = 0
  /\ config.url # ""
  /\ connectionState = "disconnected"
  /\ ~isManuallyClosedRef
  /\ HandleConnect
  /\ lastOp' = [NoOp EXCEPT !.op = "effect"]
  /\ run' = NoRun
  /\ UNCHANGED <<others, config, inbound, outbound, arrival, lastMessage, reconnectTimeoutRef, reconnectAttemptsRef,
                 reconnectDelayRef, timers, closeDue, sinceDisconnect>>

\* ------------------------------------------------------------ ws.onopen
OnOpen(s) ==
  /\ closeDue = 0
  /\ sockets[s] = "CONNECTING"
  /\ sockets' = [sockets EXCEPT ![s] = "OPEN"]
  /\ connectionState' = "connected"
  /\ error' = Null
  /\ reconnectAttemptsRef' = 0
  /\ reconnectDelayRef' = OrDefault(config.reconnectDelay, RECONNECT_DELAY)
  /\ lastOp' = [NoOp EXCEPT !.op = "open", !.sock = s]
  /\ run' = IF (\A x \in Slots \ {s} : sockets[x] = "NONE") /\ PendingTimers = {}
            THEN [origin |-> "open", closes |-> 0, delays |-> <<>>]
            ELSE NoRun
  /\ UNCHANGED <<others, config, inbound, outbound, arrival, lastMessage, wsRef, reconnectTimeoutRef, isManuallyClosedRef,
                 timers, closeDue, sinceDisconnect>>

\* --------------------------------------------------------- ws.onmessage
ParseError == [json |-> "SyntaxError", type |-> "undefined"]

\* JSON.parse on the texts above
JSONParse(text) ==
  CASE text = "{\"type\":\"transcript\"}"   -> [json |-> "object", type |-> "transcript"]
    [] text = "{\"type\":\"summary\"}"      -> [json |-> "object", type |-> "summary"]
    [] text = "{\"type\":\"error\"}"        -> [json |-> "object", type |-> "error"]
    [] text = "{\"type\":\"status\"}"       -> [json |-> "object", type |-> "status"]
    [] text = "{\"type\":\"audio\"}"        -> [json |-> "object", type |-> "audio"]
    [] text = "{\"type\":\"pong\"}"         -> [json |-> "object", type |-> "pong"]
    [] text = "{\"type\":\"auth_success\"}" -> [json |-> "object", type |-> "auth_success"]
    [] text = "{\"type\":\"auth_error\"}"   -> [json |-> "object", type |-> "auth_error"]
    [] text = "{\"sessionId\":\"s1\"}"      -> [json |-> "object", type |-> "undefined"]
    [] text = "42"                          -> [json |-> "number", type |-> "undefined"]
    [] text = "null"                        -> NullMessage
    [] OTHER                                -> ParseError

\* The value of lastMessage after the handler: the parsed message, or the
\* previous value when the handler returns early or JSON.parse throws.
Received_publishAll(p, prev) ==
  IF p.kind = "string" THEN JSONParse(p.data) ELSE NullMessage

Received(p, prev) ==
  IF p.kind = "string"
  THEN LET message == JSONParse(p.data)
       IN  IF message = ParseError THEN prev ELSE message
  ELSE prev

\* setLastMessage(message) is called with a fresh object for every payload
\* that parses; the messages are numbered in the order they arrive.
Arrived(p, a) ==
  IF p.kind = "string" /\ JSONParse(p.data) # ParseError
  THEN [count |-> a.count + 1, last |-> a.count + 1]
  ELSE a

OnMessage(s, p) ==
  /\ closeDue = 0
  /\ sockets[s] = "OPEN"
  /\ tracing = "inbound" => arrival.count < MaxMessages
  /\ lastMessage' = Received(p, lastMessage)
  /\ arrival' = IF tracing = "inbound" THEN Arrived(p, arrival) ELSE arrival
  /\ lastOp' = [NoOp EXCEPT !.op = "message", !.sock = s, !.payload = p]
  /\ UNCHANGED <<others, config, inbound, outbound, connectionState, error, wsRef, reconnectTimeoutRef,
                 reconnectAttemptsRef, reconnectDelayRef, isManuallyClosedRef,
                 sockets, timers, closeDue, sinceDisconnect, run>>

\* ----------------------------------------------------------- ws.onerror
\* The platform fails the connection: readyState is CLOSED when the error
\* event is dispatched, and the close event follows in the same task.
OnError(s) ==
  /\ closeDue = 0
  /\ sockets[s] \in {"CONNECTING", "OPEN", "CLOSING", "ABORTING"}
  /\ sockets' = [sockets EXCEPT ![s] = "CLOSED"]
  /\ error' = WEBSOCKET_CONNECTION_FAILED
  /\ IF wsRef # 0 /\ wsRef # s /\ ReadyState(wsRef) = "OPEN"
     THEN UNCHANGED connectionState
     ELSE connectionState' = "error"
  /\ closeDue' = s
  /\ lastOp' = [NoOp EXCEPT !.op = "error", !.sock = s]
  /\ UNCHANGED <<others, config, inbound, outbound, arrival, lastMessage, wsRef, reconnectTimeoutRef, reconnectAttemptsRef,
                 reconnectDelayRef, isManuallyClosedRef, timers, sinceDisconnect, run>>

\* ----------------------------------------------------------- ws.onclose
\* reconnectAttemptsRef.current < maxAttempts
CanRetry_le == reconnectAttemptsRef <= maxAttempts
CanRetry == reconnectAttemptsRef < maxAttempts

\* A close event: the one that follows an error event, or a clean close of
\* an open or closing socket.  A socket closed before it opened always
\* fails, so its close event follows an error event.
OnClose(s) ==
  /\ \/ closeDue = s
     \/ closeDue = 0 /\ sockets[s] \in {"OPEN", "CLOSING"}
  /\ sockets' = [sockets EXCEPT ![s] = "NONE"]
  /\ closeDue' = 0
  /\ wsRef' = 0
  /\ IF ~isManuallyClosedRef
     THEN IF CanRetry
          THEN LET delay == calculateBackoffDelay(reconnectAttemptsRef)
               IN  /\ FreeTimers # {}
                   /\ LET t == CHOOSE x \in FreeTimers : \A y \in FreeTimers : x <= y
                      IN  /\ timers' = [timers EXCEPT ![t] = delay]
                          /\ reconnectTimeoutRef' = t
                   /\ reconnectDelayRef' = delay
                   /\ connectionState' = "disconnected"
                   /\ run' = IF run.origin = "none" THEN NoRun
                             ELSE [run EXCEPT !.closes = @ + 1, !.delays = Append(@, delay)]
                   /\ lastOp' = [NoOp EXCEPT !.op = "close", !.sock = s]
                   /\ UNCHANGED error
          ELSE /\ connectionState' = "error"
               /\ error' = "Maximum reconnection attempts exceeded"
               /\ run' = IF run.origin = "none" THEN NoRun
                         ELSE [run EXCEPT !.closes = @ + 1]
               /\ lastOp' = [NoOp EXCEPT !.op = "close", !.sock = s]
               /\ UNCHANGED <<timers, reconnectTimeoutRef, reconnectDelayRef>>
     ELSE /\ connectionState' = "disconnected"
          /\ run' = NoRun
          /\ lastOp' = [NoOp EXCEPT !.op = "manualclose", !.sock = s]
          /\ UNCHANGED <<error, timers, reconnectTimeoutRef, reconnectDelayRef>>
  /\ UNCHANGED <<others, config, inbound, outbound, arrival, lastMessage, reconnectAttemptsRef, isManuallyClosedRef,
                 sinceDisconnect>>

\* The peer starts the closing handshake: readyState becomes CLOSING before
\* any handler of the hook runs.
PeerClosing(s) ==
  /\ closeDue = 0
  /\ sockets[s] = "OPEN"
  /\ sockets' = [sockets EXCEPT ![s] = "CLOSING"]
  /\ lastOp' = [NoOp EXCEPT !.op = "peerClosing", !.sock = s]
  /\ UNCHANGED <<others, config, inbound, outbound, arrival, hookVars, timers, closeDue, sinceDisconnect, run>>

\* ------------------------------------------- reconnect timer callback
\* reconnectAttemptsRef.current++
NextAttempt_same(n) == n
NextAttempt(n) == n + 1

TimerFire(t) ==
  /\ closeDue = 0
  /\ timers[t] # 0
  /\ timers' = [timers EXCEPT ![t] = 0]
  /\ reconnectTimeoutRef' = IF reconnectTimeoutRef = t THEN -1 ELSE reconnectTimeoutRef
  /\ reconnectAttemptsRef' = NextAttempt(reconnectAttemptsRef)
  /\ HandleConnect
  /\ lastOp' = [NoOp EXCEPT !.op = "timer"]
  /\ UNCHANGED <<others, config, inbound, outbound, arrival, lastMessage, reconnectDelayRef, closeDue, sinceDisconnect, run>>

\* ---------------------------------------------------- handleDisconnect
\* ws.close(): a connecting socket is aborted (it will fail with an error
\* event), an open socket starts the closing handshake.
CloseCall(st) ==
  CASE st = "CONNECTING" -> "ABORTING"
    [] st = "OPEN"       -> "CLOSING"
    [] OTHER             -> st

Disconnect ==
  /\ closeDue = 0
  /\ isManuallyClosedRef' = TRUE
  /\ IF reconnectTimeoutRef # 0
     THEN /\ timers' = [t \in TimerIds |-> IF t = reconnectTimeoutRef THEN 0 ELSE timers[t]]
          /\ reconnectTimeoutRef' = 0
     ELSE UNCHANGED <<timers, reconnectTimeoutRef>>
  /\ IF wsRef # 0
     THEN /\ sockets' = [sockets EXCEPT ![wsRef] = CloseCall(@)]
          /\ wsRef' = 0
     ELSE UNCHANGED <<sockets, wsRef>>
  /\ connectionState' = "disconnected"
  /\ error' = Null
  /\ reconnectAttemptsRef' = 0
  /\ lastOp' = [NoOp EXCEPT !.op = "disconnect"]
  /\ sinceDisconnect' = TRUE
  /\ run' = NoRun
  /\ UNCHANGED <<others, config, inbound, outbound, arrival, lastMessage, reconnectDelayRef, closeDue>>

\* ------------------------------------------------ sendAudio / sendMessage
\* WebSocket.send throws InvalidStateError while CONNECTING, transmits
\* while OPEN and silently discards while CLOSING or CLOSED.
SendThrows(s)   == ReadyState(s) = "CONNECTING"
SendTransmits(s) == ReadyState(s) = "OPEN"

\* wsRef.current?.readyState !== WebSocket.OPEN is the early return
CanSend_anyHandle == wsRef # 0
CanSend == WsOpen

Buffers  == {"pcm1"}
Outbound == {"summary_request"}

\* wsRef.current.send(pcmData) puts the frame on the wire behind the
\* frames sent before it
Transmit_front(wire, frame) == <<frame>> \o wire
Transmit(wire, frame) == Append(wire, frame)

\* The k-th call of a traced run passes frame k.
Record(o, sent) ==
  LET frame == Len(o.calls) + 1
  IN  [calls |-> Append(o.calls, [connected |-> connectionState = "connected", open |-> WsOpen]),
       wire  |-> IF sent THEN Transmit(o.wire, frame) ELSE o.wire]

SendAudio(pcmData) ==
  /\ closeDue = 0
  /\ tracing = "audio" => Len(outbound.calls) < MaxFrames
  /\ outbound' = IF tracing = "audio"
                 THEN Record(outbound, CanSend /\ ~SendThrows(wsRef) /\ SendTransmits(wsRef))
                 ELSE outbound
  /\ IF ~CanSend
     THEN /\ lastOp' = [NoOp EXCEPT !.op = "sendAudio", !.payload = [kind |-> "binary", data |-> pcmData]]
          /\ UNCHANGED error
     ELSE IF SendThrows(wsRef)
          THEN /\ error' = "Failed to send audio data"
               /\ lastOp' = [NoOp EXCEPT !.op = "sendAudio", !.payload = [kind |-> "binary", data |-> pcmData], !.threw = TRUE]
          ELSE /\ lastOp' = [NoOp EXCEPT !.op = "sendAudio", !.sock = wsRef, !.payload = [kind |-> "binary", data |-> pcmData],
                                         !.sent = SendTransmits(wsRef)]
               /\ UNCHANGED error
  /\ UNCHANGED <<others, config, inbound, arrival, connectionState, lastMessage, wsRef, reconnectTimeoutRef,
                 reconnectAttemptsRef, reconnectDelayRef, isManuallyClosedRef,
                 sockets, timers, closeDue, sinceDisconnect, run>>

SendMessage(message) ==
  /\ closeDue = 0
  /\ IF ~CanSend
     THEN /\ lastOp' = [NoOp EXCEPT !.op = "sendMessage", !.payload = [kind |-> "string", data |-> message]]
          /\ UNCHANGED error
     ELSE IF SendThrows(wsRef)
          THEN /\ error' = "Failed to send message"
               /\ lastOp' = [NoOp EXCEPT !.op = "sendMessage", !.payload = [kind |-> "string", data |-> message], !.threw = TRUE]
          ELSE /\ lastOp' = [NoOp EXCEPT !.op = "sendMessage", !.sock = wsRef, !.payload = [kind |-> "string", data |-> message],
                                         !.sent = SendTransmits(wsRef)]
               /\ UNCHANGED error
  /\ UNCHANGED <<others, config, inbound, outbound, arrival, connectionState, lastMessage, wsRef, reconnectTimeoutRef,
                 reconnectAttemptsRef, reconnectDelayRef, isManuallyClosedRef,
                 sockets, timers, closeDue, sinceDisconnect, run>>

\* ------------------------------------------------------------------ Next
Next ==
  \/ Connect
  \/ AutoConnectEffect
  \/ Disconnect
  \/ \E s \in Slots : OnOpen(s)
  \/ \E s \in Slots : \E p \in inbound : OnMessage(s, p)
  \/ \E s \in Slots : OnError(s)
  \/ \E s \in Slots : OnClose(s)
  \/ \E s \in Slots : PeerClosing(s)
  \/ \E t \in TimerIds : TimerFire(t)
  \/ \E b \in Buffers : SendAudio(b)
  \/ \E m \in Outbound : SendMessage(m)

Spec == Init /\ [][Next]_vars

\* The channel with its reconnect timers observed.
InitTimers ==
  /\ config \in Configs
  /\ inbound \in Peers(config)
  /\ InitHook
  /\ backoff = NoBackoff
  /\ tracing = "timers"
  /\ InitApi
  /\ IdleUtils
  /\ IdleCapture
  /\ stored = NullCreds
  /\ offered = {}

SpecTimers == InitTimers /\ [][Next]_vars

\* ------------------------------------------------------- useApiConfig
notApi == <<wsVars, backoff, tracing, panelVars, captureVars, utilVars>>

FreeValidations == {v \in ValidationIds : validations[v].st = "none"}

\* !creds.nlsToken.trim() || !creds.dashScopeKey.trim()
IsBlank_emptyOnly(c) == c.nlsToken = "" \/ c.dashScopeKey = ""
IsBlank(c) == Trim(c.nlsToken) = "" \/ Trim(c.dashScopeKey) = ""

\* validateCredentials up to its first await: the state updates and, for
\* credentials that are not blank, the two requests it starts.
ValidateCredentials(c, by) ==
  IF IsBlank(c)
  THEN /\ apiError' = "Credentials cannot be empty or contain only whitespace"
       /\ isValid' = FALSE
       /\ isLoading' = FALSE
       /\ UNCHANGED validations
  ELSE /\ FreeValidations # {}
       /\ LET v == CHOOSE x \in FreeValidations : \A y \in FreeValidations : x <= y
          IN  validations' = [validations EXCEPT ![v] =
                [NoValidation EXCEPT
                   !.st = "running", !.creds = c,
                   !.nls = IF Handshake(c.nlsToken) = "throws" THEN "throws" ELSE "pending",
                   !.by = by,
                   !.doneBefore = {x \in ValidationIds : validations[x].st = "done"}]]
       /\ isLoading' = TRUE
       /\ apiError' = Null
       /\ UNCHANGED isValid

\* useEffect(..., []): load the saved credentials and validate them
MountEffect ==
  /\ ~apiMounted
  /\ apiMounted' = TRUE
  /\ IF stored # NullCreds
     THEN /\ credentials' = stored
          /\ ValidateCredentials(stored, "mount")
     ELSE UNCHANGED <<credentials, isValid, isLoading, apiError, validations>>
  /\ lastApi' = [NoApiOp EXCEPT !.op = "mount", !.creds = stored,
                                !.ret = IF stored # NullCreds /\ IsBlank(stored) THEN "false" ELSE "none"]
  /\ UNCHANGED <<notApi, stored, offered>>

\* saveCredentials(creds); localStorage.setItem may throw (quota)
SaveCredentials(c) ==
  /\ apiMounted
  /\ \E saved \in BOOLEAN :
       IF saved
       THEN /\ stored' = c
            /\ credentials' = c
            /\ ValidateCredentials(c, "save")
            /\ lastApi' = [NoApiOp EXCEPT !.op = "save", !.creds = c,
                                          !.ret = IF IsBlank(c) THEN "false" ELSE "none"]
       ELSE /\ apiError' = "Failed to save credentials"
            /\ lastApi' = [NoApiOp EXCEPT !.op = "saveFailed", !.creds = c]
            /\ UNCHANGED <<stored, credentials, isValid, isLoading, validations>>
  /\ UNCHANGED <<notApi, apiMounted, offered>>

\* testConnection()
TestConnection ==
  /\ apiMounted
  /\ IF credentials = NullCreds
     THEN /\ apiError' = "No credentials available"
          /\ UNCHANGED <<isValid, isLoading, validations>>
     ELSE ValidateCredentials(credentials, "test")
  /\ lastApi' = [NoApiOp EXCEPT !.op = "test", !.creds = credentials,
                                !.ret = IF credentials = NullCreds \/ IsBlank(credentials)
                                        THEN "false" ELSE "none"]
  /\ UNCHANGED <<notApi, credentials, apiMounted, stored, offered>>

\* One of the two promises of validation v settles; when it is the second,
\* Promise.all resolves and validateCredentials runs to its end.
Settle(v, r) ==
  /\ IF r.nls # "pending" /\ r.ds # "pending"
     THEN LET bothValid == NlsResolves(r.nls) /\ DashScopeResolves(r.ds)
          IN  /\ isValid' = bothValid
              /\ apiError' = IF ~bothValid THEN INVALID_CREDENTIALS ELSE apiError
              /\ validations' = [validations EXCEPT ![v] =
                    [r EXCEPT !.st = "done", !.valid = isValid', !.err = apiError']]
              /\ isLoading' = FALSE
              /\ lastApi' = [op |-> "complete", v |-> v, creds |-> r.creds,
                             ret |-> IF bothValid THEN "true" ELSE "false"]
     ELSE /\ validations' = [validations EXCEPT ![v] = r]
          /\ lastApi' = [op |-> "settle", v |-> v, creds |-> r.creds, ret |-> "none"]
          /\ UNCHANGED <<isValid, apiError, isLoading>>
  /\ UNCHANGED <<notApi, credentials, apiMounted, stored, offered>>

HandshakePending(v) == validations[v].st = "running" /\ validations[v].nls = "pending"
ProbePending(v)     == validations[v].st = "running" /\ validations[v].ds = "pending"

\* ws.onopen of the test socket
HandshakeOpens(v) ==
  /\ HandshakePending(v)
  /\ Handshake(validations[v].creds.nlsToken) = "open"
  /\ Settle(v, [validations[v] EXCEPT !.nls = "open"])

\* ws.onerror of the test socket
HandshakeErrors(v) ==
  /\ HandshakePending(v)
  /\ Handshake(validations[v].creds.nlsToken) = "error"
  /\ Settle(v, [validations[v] EXCEPT !.nls = "error"])

\* the 5000 ms timeout of the test socket
HandshakeTimesOut(v) ==
  /\ HandshakePending(v)
  /\ Handshake(validations[v].creds.nlsToken) = "timeout"
  /\ Settle(v, [validations[v] EXCEPT !.nls = "timeout"])

\* fetch resolves with a response
ProbeResponds(v) ==
  /\ ProbePending(v)
  /\ Probe(validations[v].creds.dashScopeKey) # "network error"
  /\ Settle(v, [validations[v] EXCEPT !.ds = Probe(validations[v].creds.dashScopeKey)])

\* fetch rejects
ProbeFails(v) ==
  /\ ProbePending(v)
  /\ Probe(validations[v].creds.dashScopeKey) = "network error"
  /\ Settle(v, [validations[v] EXCEPT !.ds = "network error"])

\* The users explored: one who submits a single credential pair, for every
\* pair, one who has a pair that validates and a pair that does not, and
\* one who has a pair that validates and a pair with a whitespace-only field.
GoodAndBad ==
  {[nlsToken |-> "tok-opens", dashScopeKey |-> "key-200"],
   [nlsToken |-> "tok-opens", dashScopeKey |-> "key-401"]}

GoodAndBlank ==
  {[nlsToken |-> "tok-opens", dashScopeKey |-> "key-200"],
   [nlsToken |-> "  ", dashScopeKey |-> "key-200"]}

Users == {{c} : c \in Creds} \cup {GoodAndBad, GoodAndBlank}

InitCredentials ==
  /\ config = [url |-> "ws://localhost:8080/ws", reconnectAttempts |-> 1,
               reconnectDelay |-> RECONNECT_DELAY]
  /\ inbound = {}
  /\ InitHook
  /\ backoff = NoBackoff
  /\ tracing = "off"
  /\ InitApi
  /\ IdleUtils
  /\ IdleCapture
  /\ offered \in Users
  /\ stored \in {NullCreds} \cup offered

NextCredentials ==
  \/ MountEffect
  \/ \E c \in offered : SaveCredentials(c)
  \/ TestConnection
  \/ \E v \in ValidationIds : HandshakeOpens(v)
  \/ \E v \in ValidationIds : HandshakeErrors(v)
  \/ \E v \in ValidationIds : HandshakeTimesOut(v)
  \/ \E v \in ValidationIds : ProbeResponds(v)
  \/ \E v \in ValidationIds : ProbeFails(v)

SpecCredentials == InitCredentials /\ [][NextCredentials]_vars

\* ----------------------------- MeetingPanel: useApiConfig gates the channel
\* useEffect on [credentialsValid, webSocket]: webSocket is a fresh object
\* on every render, so the effect runs after every render.
PanelConnectEffect ==
  /\ isValid
  /\ connectionState = "disconnected"
  /\ Connect

InitPanel ==
  /\ config = [url |-> "ws://localhost:8080/ws", reconnectAttempts |-> RECONNECT_ATTEMPTS,
               reconnectDelay |-> RECONNECT_DELAY]
  /\ inbound = TranscriptsOnly
  /\ InitHook
  /\ backoff = NoBackoff
  /\ tracing = "off"
  /\ InitApi
  /\ IdleUtils
  /\ IdleCapture
  /\ offered = GoodAndBad
  /\ stored \in {NullCreds} \cup offered

NextPanel ==
  \/ PanelConnectEffect
  \/ AutoConnectEffect
  \/ \E s \in Slots : OnOpen(s)
  \/ \E s \in Slots : \E p \in inbound : OnMessage(s, p)
  \/ \E s \in Slots : OnError(s)
  \/ \E s \in Slots : OnClose(s)
  \/ \E s \in Slots : PeerClosing(s)
  \/ \E t \in TimerIds : TimerFire(t)
  \/ MountEffect
  \/ \E c \in offered : SaveCredentials(c)
  \/ TestConnection
  \/ \E v \in ValidationIds : HandshakeOpens(v)
  \/ \E v \in ValidationIds : ProbeResponds(v)

SpecPanel == InitPanel /\ [][NextPanel]_vars

\* ----------------------------------------------------- useAudioCapture
notCapture == <<wsVars, backoff, tracing, panelVars, apiVars, utilVars>>

FreeCalls    == {c \in CallIds : starts[c].st = "none"}

\* React applies a state update only while the component is mounted
SetState(applies, new, old) == IF applies THEN new ELSE old

\* err.name === 'NotAllowedError' || err.name === 'PermissionDeniedError'
\* selects the message; any other error shows err.message
StartError_notAllowedOnly(name) ==
  IF name = "NotAllowedError" THEN MICROPHONE_ACCESS_DENIED ELSE "Requested device not found"
StartError(name) ==
  IF name \in {"NotAllowedError", "PermissionDeniedError"}
  THEN MICROPHONE_ACCESS_DENIED
  ELSE "Requested device not found"

\* What stopRecording does to the platform objects its refs name: the
\* stream's tracks are stopped, processor and analyser disconnected, the
\* context closed, the interval cleared.
Released(sts, stream) ==
  [c \in CallIds |->
     LET a == sts[c]
         b == IF c = stream
              THEN [a EXCEPT !.track = "stopped", !.stops = @ + 1] ELSE a
         d == IF c \in {processorRef, analyserRef, audioContextRef}
              THEN [b EXCEPT !.nodes = "closed"] ELSE b
     IN  IF c = durationIntervalRef THEN [d EXCEPT !.interval = FALSE] ELSE d]

\* ref.current = null after the release
HeldAfterStop_kept(ref) == ref
HeldAfterStop(ref) == 0

\* audioContext.close() on a context that is already closed rejects
CloseRejects(sts) == audioContextRef # 0 /\ sts[audioContextRef].nodes = "closed"

\* The body of stopRecording, on the platform state sts with the stream
\* handle `stream`, followed by the duration effect, which runs when
\* isRecording has changed to false and resets duration.
StopBody(sts, stream, applies) ==
  /\ isRecording' = SetState(applies, FALSE, isRecording)
  /\ audioLevel' = SetState(applies, 0, audioLevel)
  /\ starts' = Released(sts, stream)
  /\ mediaStreamRef' = HeldAfterStop(stream)
  /\ processorRef' = HeldAfterStop(processorRef)
  /\ analyserRef' = HeldAfterStop(analyserRef)
  /\ audioContextRef' = HeldAfterStop(audioContextRef)
  /\ durationIntervalRef' = HeldAfterStop(durationIntervalRef)
  /\ duration' = IF applies /\ isRecording THEN 0 ELSE duration

\* startRecording() up to the await of getUserMedia
StartRecording ==
  /\ mounted
  /\ IF mediaSupported
     THEN /\ FreeCalls # {}
          /\ LET c == CHOOSE x \in FreeCalls : \A y \in FreeCalls : x <= y
             IN  /\ starts' = [starts EXCEPT ![c] =
                       [NoStart EXCEPT !.st = "pending", !.rec = isRecording]]
                 /\ lastCap' = [NoCapOp EXCEPT !.op = "start", !.call = c]
          /\ captureError' = Null
          /\ UNCHANGED <<isRecording, audioLevel, duration, mediaStreamRef, audioContextRef,
                         analyserRef, processorRef, durationIntervalRef>>
     ELSE /\ captureError' = "getUserMedia is not supported in this browser"
          /\ StopBody(starts, mediaStreamRef, TRUE)
          /\ lastCap' = [NoCapOp EXCEPT !.op = "unsupported"]
  /\ UNCHANGED <<notCapture, mounted, sinkRegistered, mediaSupported>>

\* getUserMedia resolves: the rest of startRecording runs, then the
\* duration effect if isRecording has changed to true.
PermissionGranted(c) ==
  /\ starts[c].st = "pending"
  /\ \E l \in Levels :
       audioLevel' = IF starts[c].rec /\ mounted THEN l ELSE audioLevel
  /\ starts' = [starts EXCEPT ![c] =
        [@ EXCEPT !.st = "granted", !.track = "live", !.nodes = "connected",
                  !.interval = mounted /\ ~isRecording]]
  /\ mediaStreamRef' = c
  /\ audioContextRef' = c
  /\ analyserRef' = c
  /\ processorRef' = c
  /\ isRecording' = SetState(mounted, TRUE, isRecording)
  /\ durationIntervalRef' = IF mounted /\ ~isRecording THEN c ELSE durationIntervalRef
  /\ lastCap' = [NoCapOp EXCEPT !.op = "granted", !.call = c]
  /\ UNCHANGED <<notCapture, captureError, duration, mounted, sinkRegistered, mediaSupported>>

\* getUserMedia resolves and new AudioContext(...) throws: the stream is
\* already in mediaStreamRef when the catch block runs.
PipelineFails(c) ==
  /\ starts[c].st = "pending"
  /\ captureError' = SetState(mounted, "The AudioContext could not be created", captureError)
  /\ StopBody([starts EXCEPT ![c] = [@ EXCEPT !.st = "failed", !.track = "live"]], c, mounted)
  /\ lastCap' = [NoCapOp EXCEPT !.op = "pipelineFailed", !.call = c]
  /\ UNCHANGED <<notCapture, mounted, sinkRegistered, mediaSupported>>

\* getUserMedia rejects: the catch block
PermissionDenied(c, name) ==
  /\ starts[c].st = "pending"
  /\ captureError' = SetState(mounted, StartError(name), captureError)
  /\ StopBody([starts EXCEPT ![c] = [@ EXCEPT !.st = "denied"]], mediaStreamRef, mounted)
  /\ lastCap' = [NoCapOp EXCEPT !.op = "denied", !.call = c, !.name = name]
  /\ UNCHANGED <<notCapture, mounted, sinkRegistered, mediaSupported>>

\* stopRecording() called by the consumer
StopRecording ==
  /\ mounted
  /\ StopBody(starts, mediaStreamRef, TRUE)
  /\ lastCap' = [NoCapOp EXCEPT !.op = "stop", !.again = (lastCap.op = "stop"),
                                !.threw = CloseRejects(starts)]
  /\ UNCHANGED <<notCapture, captureError, mounted, sinkRegistered, mediaSupported>>

\* unmount: the cleanup effect calls stopRecording(); state updates of an
\* unmounting component are dropped
Unmount ==
  /\ mounted
  /\ mounted' = FALSE
  /\ StopBody(starts, mediaStreamRef, FALSE)
  /\ lastCap' = [NoCapOp EXCEPT !.op = "unmount", !.threw = CloseRejects(starts)]
  /\ UNCHANGED <<notCapture, captureError, sinkRegistered, mediaSupported>>

\* processor.onaudioprocess of the call's script processor
AudioProcess(c, frame) ==
  /\ starts[c].nodes = "connected"
  /\ IF ~starts[c].rec \/ ~sinkRegistered
     THEN /\ lastCap' = [NoCapOp EXCEPT !.op = "frame", !.call = c, !.name = frame.pcm]
          /\ UNCHANGED audioLevel
     ELSE /\ audioLevel' = SetState(mounted, frame.level, audioLevel)
          /\ lastCap' = [NoCapOp EXCEPT !.op = "frame", !.call = c, !.name = frame.pcm,
                                        !.sunk = TRUE, !.levelSet = mounted]
  /\ UNCHANGED <<notCapture, isRecording, captureError, duration, mediaStreamRef,
                 audioContextRef, analyserRef, processorRef, durationIntervalRef,
                 mounted, sinkRegistered, mediaSupported, starts>>

\* updateAudioLevel run by requestAnimationFrame: the loop lives as long as
\* the isRecording of its closure is true
LevelTick(c) ==
  /\ starts[c].st = "granted"
  /\ starts[c].rec
  /\ mounted
  /\ \E l \in Levels : audioLevel' = l
  /\ lastCap' = [NoCapOp EXCEPT !.op = "level", !.call = c]
  /\ UNCHANGED <<notCapture, isRecording, captureError, duration, mediaStreamRef,
                 audioContextRef, analyserRef, processorRef, durationIntervalRef,
                 mounted, sinkRegistered, mediaSupported, starts>>

\* the callback of the duration interval
DurationTick(c) ==
  /\ starts[c].interval
  /\ mounted
  /\ duration < MaxDuration
  /\ duration' = duration + 1
  /\ lastCap' = [NoCapOp EXCEPT !.op = "tick", !.call = c]
  /\ UNCHANGED <<notCapture, isRecording, audioLevel, captureError, mediaStreamRef,
                 audioContextRef, analyserRef, processorRef, durationIntervalRef,
                 mounted, sinkRegistered, mediaSupported, starts>>

\* The capture device is unplugged or the permission revoked: the track
\* ends.  The hook registers no handler for it.
DeviceFails(c) ==
  /\ starts[c].track = "live"
  /\ starts' = [starts EXCEPT ![c] = [@ EXCEPT !.track = "ended"]]
  /\ lastCap' = [NoCapOp EXCEPT !.op = "deviceFailed", !.call = c]
  /\ UNCHANGED <<notCapture, isRecording, audioLevel, captureError, duration, mediaStreamRef,
                 audioContextRef, analyserRef, processorRef, durationIntervalRef,
                 mounted, sinkRegistered, mediaSupported>>

InitCapture ==
  /\ config = [url |-> "ws://localhost:8080/ws", reconnectAttempts |-> 1,
               reconnectDelay |-> RECONNECT_DELAY]
  /\ inbound = {}
  /\ InitHook
  /\ backoff = NoBackoff
  /\ tracing = "off"
  /\ InitApi
  /\ IdleUtils
  /\ stored = NullCreds
  /\ offered = {}
  /\ InitCaptureHook
  /\ sinkRegistered \in BOOLEAN
  /\ mediaSupported \in BOOLEAN

NextCapture ==
  \/ StartRecording
  \/ \E c \in CallIds : PermissionGranted(c)
  \/ \E c \in CallIds : PipelineFails(c)
  \/ \E c \in CallIds : \E name \in Rejections : PermissionDenied(c, name)
  \/ StopRecording
  \/ Unmount
  \/ \E c \in CallIds : \E frame \in Frames : AudioProcess(c, frame)
  \/ \E c \in CallIds : LevelTick(c)
  \/ \E c \in CallIds : DurationTick(c)
  \/ \E c \in CallIds : DeviceFails(c)

SpecCapture == InitCapture /\ [][NextCapture]_vars

\* The platform keeps delivering frames, animation frames and interval
\* callbacks; the user need not answer a permission prompt or press stop.
SpecCaptureFair ==
  /\ SpecCapture
  /\ WF_vars(\E c \in CallIds : \E frame \in Frames : AudioProcess(c, frame))
  /\ WF_vars(\E c \in CallIds : LevelTick(c))
  /\ WF_vars(\E c \in CallIds : DurationTick(c))

\* ------------------------------------ the channel with its order observed
\* MeetingPanel's effect on webSocket.lastMessage: it runs after a render
\* in which lastMessage is another object than in the render before, and
\* appends the entry of a transcript message to the transcript.
AddEntry_front(entries, id) == <<id>> \o entries
AddEntry(entries, id) ==
  IF \E i \in 1..Len(entries) : entries[i] = id
  THEN entries
  ELSE Append(entries, id)

LastMessageEffect ==
  /\ closeDue = 0
  /\ arrival.last # effectSeen
  /\ effectSeen' = arrival.last
  /\ transcript' = IF lastMessage # NullMessage /\ lastMessage.type = "transcript"
                   THEN AddEntry(transcript, arrival.last)
                   ELSE transcript
  /\ UNCHANGED <<wsVars, backoff, tracing, apiVars, captureVars, utilVars>>

InitOrder ==
  /\ config = [url |-> "ws://localhost:8080/ws", reconnectAttempts |-> 1,
               reconnectDelay |-> RECONNECT_DELAY]
  /\ \/ tracing = "audio" /\ inbound = {}
     \/ tracing = "inbound" /\ inbound = TranscriptsOnly
  /\ InitHook
  /\ backoff = NoBackoff
  /\ InitApi
  /\ IdleUtils
  /\ IdleCapture
  /\ stored = NullCreds
  /\ offered = {}

NextOrder ==
  \/ Next
  \/ LastMessageEffect

SpecOrder == InitOrder /\ [][NextOrder]_vars

\* ------------------------------------------ calculateBackoffDelay alone
\* The hook is constructed with a base delay and the delay of attempt
\* 0, 1, 2, ... is computed in turn.
BackoffBases == {0, 1, 250, 500, 1000, 1500, 2000, 3000, 7500, 15000, 29999, 30000, 45000}

InitBackoff ==
  /\ config \in [url : {"ws://localhost:8080/ws"},
                 reconnectAttempts : {RECONNECT_ATTEMPTS},
                 reconnectDelay : BackoffBases]
  /\ inbound = {}
  /\ InitHook
  /\ backoff = [base |-> config.reconnectDelay, delays |-> <<>>]
  /\ tracing = "off"
  /\ InitApi
  /\ IdleUtils
  /\ IdleCapture
  /\ stored = NullCreds
  /\ offered = {}

BackoffStep ==
  /\ Len(backoff.delays) <= MaxAttempt
  /\ backoff' = [backoff EXCEPT !.delays = Append(@, calculateBackoffDelay(Len(@)))]
  /\ UNCHANGED <<wsVars, tracing, panelVars, apiVars, captureVars, utilVars>>

NextBackoff == BackoffStep

SpecBackoff == InitBackoff /\ [][NextBackoff]_vars

\* ------------------------------------------------------ StorageManager
notStorage == <<wsVars, backoff, tracing, panelVars, apiVars, captureVars, encoderVars,
               serverVars, sessionVars>>

\* StorageManager.saveCredentials(c).  refused: localStorage.setItem throws
\* (quota exceeded, storage disabled).
StorageManager_saveCredentials(c) ==
  \E refused \in BOOLEAN :
    LET text  == JSONStringify(c)
        threw == BtoaThrows(text) \/ refused
    IN  /\ localStorageItem' = IF threw THEN localStorageItem ELSE Btoa(text)
        /\ lastStore' = [op |-> "save", arg |-> <<c>>, refused |-> refused,
                         threw |-> threw, ret |-> <<>>]
        /\ UNCHANGED <<notStorage, typed>>

\* StorageManager.getCredentials(): <<object>>, or <<>> for null.
GetCredentials(encrypted) ==
  IF encrypted = <<>> \/ AtobThrows(encrypted) THEN <<>> ELSE ParseCredentials(Atob(encrypted))

StorageManager_getCredentials ==
  /\ lastStore' = [op |-> "get", arg |-> <<>>, refused |-> FALSE, threw |-> FALSE,
                   ret |-> GetCredentials(localStorageItem)]
  /\ UNCHANGED <<notStorage, localStorageItem, typed>>

StorageManager_clearCredentials ==
  /\ localStorageItem' = <<>>
  /\ lastStore' = [op |-> "clear", arg |-> <<>>, refused |-> FALSE, threw |-> FALSE, ret |-> <<>>]
  /\ UNCHANGED <<notStorage, typed>>

InitStorage ==
  /\ config = [url |-> "ws://localhost:8080/ws", reconnectAttempts |-> 1,
               reconnectDelay |-> RECONNECT_DELAY]
  /\ inbound = {}
  /\ InitHook
  /\ backoff = NoBackoff
  /\ tracing = "off"
  /\ InitApi
  /\ stored = NullCreds
  /\ offered = {}
  /\ IdleCapture
  /\ IdleEncoder
  /\ IdleServer
  /\ IdleSessions
  /\ typed \in {{c, KnownPair} : c \in Pairs}
  /\ localStorageItem \in {<<>>, Btoa(JSONStringify(KnownPair))}
  /\ lastStore = NoStoreOp

NextStorage ==
  \/ \E c \in typed : StorageManager_saveCredentials(c)
  \/ StorageManager_getCredentials
  \/ StorageManager_clearCredentials

SpecStorage == InitStorage /\ [][NextStorage]_vars

\* ---------------------------------------------------------- PCMEncoder
notEncoder == <<wsVars, backoff, tracing, panelVars, apiVars, captureVars, storageVars,
               serverVars, sessionVars>>

Encode ==
  /\ lastPcm' = [NoPcmOp EXCEPT !.op = "encode", !.bytes = encode(audioData)]
  /\ UNCHANGED <<notEncoder, audioData>>

StereoToMono(rightChannel) ==
  /\ lastPcm' = [NoPcmOp EXCEPT !.op = "stereoToMono", !.right = rightChannel,
                                !.mono = stereoToMono(audioData, rightChannel)]
  /\ UNCHANGED <<notEncoder, audioData>>

\* The level of a frame as processAudioBuffer computes it from the samples
\* it meters: calculateRMS, then normalizeAudioLevel.
AudioLevel ==
  /\ lastPcm' = [NoPcmOp EXCEPT !.op = "level", !.rms = calculateRMS(audioData),
                                !.level = normalizeAudioLevel(calculateRMS(audioData))]
  /\ UNCHANGED <<notEncoder, audioData>>

InitEncoder ==
  /\ config = [url |-> "ws://localhost:8080/ws", reconnectAttempts |-> 1,
               reconnectDelay |-> RECONNECT_DELAY]
  /\ inbound = {}
  /\ InitHook
  /\ backoff = NoBackoff
  /\ tracing = "off"
  /\ InitApi
  /\ stored = NullCreds
  /\ offered = {}
  /\ IdleCapture
  /\ IdleStorage
  /\ IdleServer
  /\ IdleSessions
  /\ audioData \in Float32Arrays
  /\ lastPcm = NoPcmOp

NextEncoder ==
  \/ Encode
  \/ \E rightChannel \in RightChannels : StereoToMono(rightChannel)
  \/ AudioLevel

SpecEncoder == InitEncoder /\ [][NextEncoder]_vars

\* ------------------------------------- StorageManager: the session list
notSessions == <<wsVars, backoff, tracing, panelVars, apiVars, captureVars, storageVars,
                 encoderVars, serverVars>>

\* The ids of the saved list, in the order the add calls inserted them.
Inserted(order, saved) ==
  LET Saved(id) == Includes(saved, id)
  IN  SelectSeq(order, Saved)

\* StorageManager.addSession(sessionId).  refused: localStorage.setItem
\* throws, and saveSessions throws 'Failed to save session list'.
StorageManager_addSession(sessionId) ==
  /\ UNCHANGED notSessions
  /\ LET sessions == getSessions(sessionsItem)
     IN  IF Includes(sessions, sessionId)
         THEN /\ lastList' = [op |-> "add", id |-> sessionId, before |-> sessions, threw |-> FALSE]
              /\ UNCHANGED <<sessionsItem, inserted>>
         ELSE \E refused \in BOOLEAN :
                IF refused
                THEN /\ lastList' = [op |-> "add", id |-> sessionId, before |-> sessions, threw |-> TRUE]
                     /\ UNCHANGED <<sessionsItem, inserted>>
                ELSE LET saved == addSession(sessions, sessionId)
                     IN  /\ sessionsItem' = StringifySessions(saved)
                         /\ inserted' = Inserted(Append(inserted, sessionId), saved)
                         /\ lastList' = [op |-> "add", id |-> sessionId, before |-> sessions,
                                         threw |-> FALSE]

\* StorageManager.removeSession(sessionId)
StorageManager_removeSession(sessionId) ==
  /\ UNCHANGED notSessions
  /\ LET sessions == getSessions(sessionsItem)
     IN  \E refused \in BOOLEAN :
           IF refused
           THEN /\ lastList' = [op |-> "remove", id |-> sessionId, before |-> sessions, threw |-> TRUE]
                /\ UNCHANGED <<sessionsItem, inserted>>
           ELSE LET saved == removeSession(sessions, sessionId)
                IN  /\ sessionsItem' = StringifySessions(saved)
                    /\ inserted' = Inserted(inserted, saved)
                    /\ lastList' = [op |-> "remove", id |-> sessionId, before |-> sessions,
                                    threw |-> FALSE]

InitSessions ==
  /\ config = [url |-> "ws://localhost:8080/ws", reconnectAttempts |-> 1,
               reconnectDelay |-> RECONNECT_DELAY]
  /\ inbound = {}
  /\ InitHook
  /\ backoff = NoBackoff
  /\ tracing = "off"
  /\ InitApi
  /\ stored = NullCreds
  /\ offered = {}
  /\ IdleCapture
  /\ IdleUtils

NextSessions ==
  \/ \E sessionId \in SessionIds : StorageManager_addSession(sessionId)
  \/ \E sessionId \in SessionIds : StorageManager_removeSession(sessionId)

SpecSessions == InitSessions /\ [][NextSessions]_vars

\* ---------------------------------------- the server WebSocket handler
notServer == <<wsVars, backoff, tracing, panelVars, apiVars, captureVars, storageVars,
               encoderVars, sessionVars>>

FreeHandlers == {h \in HandlerIds : handlers[h].pc = "none"}

\* !nlsToken || !dashScopeKey
MissingCredentials(c) == c.nlsToken = "" \/ c.dashScopeKey = ""

\* One server step: the session, the handlers, and the reply sent.
ServerStep(op, h, session, hs, reply, backend) ==
  /\ sessionState' = session
  /\ handlers' = hs
  /\ sentAuthSuccess' = (sentAuthSuccess \/ reply = "auth_success")
  /\ lastSrv' = [op |-> op, h |-> h, reply |-> reply, backend |-> backend]
  /\ UNCHANGED notServer

\* An auth message arrives: handleAuthentication up to its first await.
\* Destructuring an absent credentials member throws a TypeError, which
\* the catch block answers with auth_error.
HandleAuthentication(c) ==
  /\ FreeHandlers # {}
  /\ LET h == CHOOSE x \in FreeHandlers : \A y \in FreeHandlers : x <= y
     IN  IF c = NoCredentials \/ MissingCredentials(c)
         THEN ServerStep("auth", h, sessionState,
                         [handlers EXCEPT ![h] = [pc |-> "done", creds |-> c]],
                         "auth_error", FALSE)
         ELSE ServerStep("auth", h, sessionState,
                         [handlers EXCEPT ![h] = [pc |-> "nls", creds |-> c]],
                         "none", FALSE)

\* validateNLSToken settles
NlsTokenValidated(h) ==
  /\ handlers[h].pc = "nls"
  /\ IF NlsResolves(Handshake(handlers[h].creds.nlsToken))
     THEN ServerStep("nlsValidated", h, sessionState,
                     [handlers EXCEPT ![h].pc = "ds"], "none", FALSE)
     ELSE ServerStep("nlsValidated", h, sessionState,
                     [handlers EXCEPT ![h].pc = "done"], "auth_error", FALSE)

\* validateDashScopeKey settles; with a valid key the credentials are
\* stored, isAuthenticated is set and initializeNLSConnection is started.
DashScopeKeyValidated(h) ==
  /\ handlers[h].pc = "ds"
  /\ IF DashScopeResolves(Probe(handlers[h].creds.dashScopeKey))
     THEN ServerStep("dsValidated", h,
                     [nlsToken |-> handlers[h].creds.nlsToken,
                      dashScopeKey |-> handlers[h].creds.dashScopeKey,
                      nlsWebSocket |-> h,
                      isAuthenticated |-> TRUE],
                     [handlers EXCEPT ![h].pc = "init"], "none", FALSE)
     ELSE ServerStep("dsValidated", h, sessionState,
                     [handlers EXCEPT ![h].pc = "done"], "auth_error", FALSE)

\* sessionState.nlsWebSocket.onopen: the promise resolves
NlsConnectionOpens(h) ==
  /\ handlers[h].pc = "init"
  /\ ServerStep("nlsOpen", h, sessionState,
                [handlers EXCEPT ![h].pc = "done"], "auth_success", FALSE)

\* sessionState.nlsWebSocket.onerror: the promise rejects and the catch
\* block of handleAuthentication runs
NlsConnectionFails(h) ==
  /\ handlers[h].pc = "init"
  /\ ServerStep("nlsError", h, sessionState,
                [handlers EXCEPT ![h].pc = "done"], "auth_error", FALSE)

\* A binary message arrives: handleAudioData
HandleAudioData ==
  IF ~sessionState.isAuthenticated
  THEN ServerStep("audio", 0, sessionState, handlers, "AUTH_REQUIRED", FALSE)
  ELSE ServerStep("audio", 0, sessionState, handlers, "transcript", TRUE)

\* A summary_request message arrives: handleSummaryRequest
HandleSummaryRequest ==
  IF ~sessionState.isAuthenticated
  THEN ServerStep("summary_request", 0, sessionState, handlers, "AUTH_REQUIRED", FALSE)
  ELSE ServerStep("summary_request", 0, sessionState, handlers, "summary", TRUE)

\* Any other text message: ping, an unknown type, or text that is no JSON
OtherTexts == {"ping", "unknown", "not json"}

HandleTextMessage(text) ==
  ServerStep(text, 0, sessionState, handlers,
             CASE text = "ping"    -> "pong"
               [] text = "unknown" -> "UNKNOWN_MESSAGE_TYPE"
               [] OTHER            -> "PROCESSING_ERROR",
             FALSE)

InitServer ==
  /\ config = [url |-> "ws://localhost:8080/ws", reconnectAttempts |-> 1,
               reconnectDelay |-> RECONNECT_DELAY]
  /\ inbound = {}
  /\ InitHook
  /\ backoff = NoBackoff
  /\ tracing = "off"
  /\ InitApi
  /\ stored = NullCreds
  /\ offered = {}
  /\ IdleCapture
  /\ IdleUtils

NextServer ==
  \/ \E c \in AuthCredentials : HandleAuthentication(c)
  \/ \E h \in HandlerIds : NlsTokenValidated(h)
  \/ \E h \in HandlerIds : DashScopeKeyValidated(h)
  \/ \E h \in HandlerIds : NlsConnectionOpens(h)
  \/ \E h \in HandlerIds : NlsConnectionFails(h)
  \/ HandleAudioData
  \/ HandleSummaryRequest
  \/ \E text \in OtherTexts : HandleTextMessage(text)

SpecServer == InitServer /\ [][NextServer]_vars

\* ======================================================================
\* Claims
\* ======================================================================

\* C1: at most one transport (a socket that is connecting or open) created
\* by the hook instance is alive at any time.
C1_AtMostOneTransport == Cardinality(LiveSockets) <= 1

\* C2: once disconnect() has been called, and until connect() is called
\* again, connectionState is disconnected, the attempt counter is 0, no
\* reconnect timer is pending and no new transport is opened, whatever
\* socket or timer events are delivered (observed between event-loop tasks).
C2_DisconnectIsTerminal ==
  [][ (sinceDisconnect' /\ closeDue' = 0) =>
        /\ connectionState' = "disconnected"
        /\ reconnectAttemptsRef' = 0
        /\ PendingTimers' = {}
        /\ \A s \in Slots : sockets'[s] = "CONNECTING" => sockets[s] = "CONNECTING" ]_vars

\* C3: a sendAudio or sendMessage call made while connectionState is not
\* connected transmits no frame, does not throw, and leaves connectionState,
\* the attempt counter and the error field unchanged.
C3_SendGated ==
  [][ (lastOp'.op \in {"sendAudio", "sendMessage"} /\ connectionState # "connected") =>
        /\ ~lastOp'.sent
        /\ ~lastOp'.threw
        /\ UNCHANGED <<connectionState, reconnectAttemptsRef, error>> ]_vars

C3_Witness ==
  /\ lastOp.op = "sendAudio"
  /\ connectionState = "connecting"
  /\ wsRef # 0
  /\ ~lastOp.sent

C4_Delays == <<1000, 2000, 4000>>

C5_ErrorAfterNCloses ==
  (run.origin = "connect" /\ lastOp.op = "close" /\ run.closes = maxAttempts) =>
    connectionState = "error"

\* C5 amended: starting from disconnected and calling connect(), each of the
\* first N consecutive non-manual closes leaves the channel disconnected
\* with a reconnect timer pending, and the (N+1)-th leaves it in error with
\* no timer pending.
C5_ErrorAfterNPlusOneCloses ==
  (run.origin = "connect" /\ lastOp.op = "close") =>
    /\ run.closes <= maxAttempts + 1
    /\ (run.closes <= maxAttempts =>
          connectionState = "disconnected" /\ PendingTimers # {})
    /\ (run.closes = maxAttempts + 1 =>
          connectionState = "error" /\ PendingTimers = {})

C5_Witness ==
  /\ run.origin = "connect"
  /\ lastOp.op = "close"
  /\ maxAttempts = 2
  /\ run.closes = 3
  /\ connectionState = "error"

\* C6: the attempt counter is 0 and connectionState is connected right after
\* every open event, the counter grows by exactly 1 each time a reconnect
\* timer fires, disconnect() resets it to 0, and nothing else changes it.
C6_AttemptCounter ==
  [][ /\ (lastOp'.op = "open" => reconnectAttemptsRef' = 0 /\ connectionState' = "connected")
      /\ (lastOp'.op = "timer" => reconnectAttemptsRef' = reconnectAttemptsRef + 1)
      /\ (lastOp'.op = "disconnect" => reconnectAttemptsRef' = 0)
      /\ (reconnectAttemptsRef' # reconnectAttemptsRef =>
            lastOp'.op \in {"open", "timer", "disconnect"}) ]_vars

C6_Witness ==
  /\ lastOp.op = "timer"
  /\ reconnectAttemptsRef = 2

C7_DefaultDelay(i) ==
  CASE i = 1 -> 1000 [] i = 2 -> 2000 [] i = 3 -> 4000 [] i = 4 -> 8000
    [] i = 5 -> 16000 [] OTHER -> 30000

\* C7: the delays of attempts 0, 1, 2, ... are min(base * 2^attempt, 30000):
\* the first is min(base, 30000), each next one doubles the previous one up
\* to the cap, the sequence is non-decreasing, strictly increasing while
\* below the cap and never above the cap; with base 1000 it is 1000, 2000,
\* 4000, 8000, 16000, 30000, 30000, ...
C7_Backoff ==
  LET b == IF backoff.base = 0 THEN RECONNECT_DELAY ELSE backoff.base
      d == backoff.delays
  IN  \A i \in 1..Len(d) :
        /\ d[i] <= MAX_RECONNECT_DELAY
        /\ (i = 1 => d[i] = (IF b < MAX_RECONNECT_DELAY THEN b ELSE MAX_RECONNECT_DELAY))
        /\ (i > 1 =>
              /\ d[i-1] <= d[i]
              /\ (d[i-1] < MAX_RECONNECT_DELAY =>
                    /\ d[i-1] < d[i]
                    /\ d[i] = (IF 2 * d[i-1] < MAX_RECONNECT_DELAY
                               THEN 2 * d[i-1] ELSE MAX_RECONNECT_DELAY)))
        /\ (b = 1000 => d[i] = C7_DefaultDelay(i))

C7_Witness ==
  /\ backoff.base = 1000
  /\ Len(backoff.delays) >= 7
  /\ backoff.delays[5] = 16000
  /\ backoff.delays[7] = 30000

\* C8: connectionState error is entered only by a non-manual close that
\* finds the attempt counter at or above the ceiling; while the counter is
\* below the ceiling the channel is never in connectionState error.
C8_ErrorOnlyAfterExhaustion ==
  [][ connectionState' = "error" =>
        /\ reconnectAttemptsRef' >= maxAttempts
        /\ (connectionState # "error" => lastOp'.op = "close") ]_vars

C9_Unparseable == {"{type:"}

\* C9: an inbound text payload that is not valid JSON, and any inbound
\* binary payload, changes none of connectionState, lastMessage, the attempt
\* counter and the socket handle, and the socket stays open for later
\* messages.
C9_MalformedDropped ==
  [][ (/\ lastOp'.op = "message"
       /\ \/ lastOp'.payload.kind = "binary"
          \/ lastOp'.payload.data \in C9_Unparseable) =>
        /\ UNCHANGED <<connectionState, lastMessage, reconnectAttemptsRef, wsRef>>
        /\ sockets'[lastOp'.sock] = "OPEN" ]_vars

C9_Witness ==
  /\ lastOp.op = "message"
  /\ lastOp.payload.data \in C9_Unparseable
  /\ lastMessage.type = "transcript"
  /\ connectionState = "connected"

C10_MessageTypes == {"audio", "transcript", "summary", "error", "status"}

\* C10: lastMessage is always null or a member of the tagged message union
\* (type in audio, transcript, summary, error, status).
C10_LastMessageWellFormed ==
  \/ lastMessage = NullMessage
  \/ lastMessage.json = "object" /\ lastMessage.type \in C10_MessageTypes

\* C11: on a channel whose URL the platform accepts, connect() called while
\* connectionState is connected changes nothing (no new transport; state,
\* error, attempt counter and socket handle unchanged); called in any other
\* state it creates exactly one new transport, sets connectionState to
\* connecting and clears error.
C11_ConnectFrame ==
  [][ (lastOp'.op = "connect" /\ UrlValid(config.url)) =>
        IF connectionState = "connected"
        THEN UNCHANGED <<connectionState, error, reconnectAttemptsRef, wsRef, sockets>>
        ELSE /\ Cardinality({s \in Slots : sockets'[s] # sockets[s]}) = 1
             /\ \A s \in Slots : sockets'[s] # sockets[s] =>
                  sockets[s] = "NONE" /\ sockets'[s] = "CONNECTING"
             /\ connectionState' = "connecting"
             /\ error' = Null ]_vars

RECURSIVE C12_CallsWhere(_, _, _)
\* the numbers of the calls in 1..n that satisfy the flag, in call order
C12_CallsWhere(calls, n, flag) ==
  IF n = 0 THEN <<>>
  ELSE IF calls[n][flag]
       THEN Append(C12_CallsWhere(calls, n - 1, flag), n)
       ELSE C12_CallsWhere(calls, n - 1, flag)

\* C12 as stated: the frames on the wire are exactly the frames of the
\* sendAudio calls made while connectionState was connected, in call order.
C12_WireIsConnectedCalls ==
  tracing = "audio" =>
    outbound.wire = C12_CallsWhere(outbound.calls, Len(outbound.calls), "connected")

\* C12: the frames on the wire are exactly the frames of the sendAudio calls
\* made while the held socket was open, in call order, each once; every such
\* call was made while connectionState was connected, so no frame passed
\* while not connected is transmitted, then or after a reconnect.
C12_WireIsOpenCalls ==
  tracing = "audio" =>
    /\ outbound.wire = C12_CallsWhere(outbound.calls, Len(outbound.calls), "open")
    /\ \A i \in 1..Len(outbound.calls) :
         outbound.calls[i].open => outbound.calls[i].connected

C12_Witness ==
  /\ tracing = "audio"
  /\ Len(outbound.calls) = 2
  /\ ~outbound.calls[1].connected
  /\ outbound.wire = <<2>>
  /\ lastOp.op = "sendAudio"

\* C13: the consumer handles parsed inbound messages in arrival order: the
\* arrival numbers of the transcript entries it appended are increasing.
C13_ArrivalOrder ==
  \A i, j \in 1..Len(transcript) : i < j => transcript[i] < transcript[j]

C13_Witness ==
  /\ tracing = "inbound"
  /\ arrival.count = 2
  /\ transcript = <<1, 2>>

\* C20: when the validation of non-blank credentials completes, isValid is
\* (the test handshake opened) and (the probe response was not 401, a
\* network failure counting as passed), and error is non-null whenever the
\* result is false.
C20_Validity ==
  lastApi.op = "complete" =>
    /\ isValid = (/\ Handshake(lastApi.creds.nlsToken) = "open"
                  /\ Probe(lastApi.creds.dashScopeKey) # "401")
    /\ ~isValid => apiError # Null

C20_Witness ==
  /\ lastApi.op = "complete"
  /\ lastApi.creds = [nlsToken |-> "tok-opens", dashScopeKey |-> "key-offline"]
  /\ isValid

\* C14: no transport is opened (no socket is created) while the credential
\* validity flag isValid is false, from mount on.
C14_GatedByValidity ==
  [][ (\E s \in Slots : sockets[s] = "NONE" /\ sockets'[s] = "CONNECTING") => isValid ]_vars

C15_Denials == {"NotAllowedError", "PermissionDeniedError"}

\* C15: when the permission request of a startRecording() call is denied,
\* the controller is idle afterwards, holds no stream and no pipeline node,
\* error is the microphone-access-denied message, the call has acquired no
\* stream, and no new permission request is made.
C15_DeniedLeavesIdle ==
  [][ (lastCap'.op = "denied" /\ lastCap'.name \in C15_Denials /\ mounted') =>
        /\ ~isRecording'
        /\ mediaStreamRef' = 0 /\ audioContextRef' = 0
        /\ analyserRef' = 0 /\ processorRef' = 0
        /\ captureError' = MICROPHONE_ACCESS_DENIED
        /\ starts'[lastCap'.call].track = "none"
        /\ \A c \in CallIds : starts'[c].st = "pending" => starts[c].st = "pending" ]_vars

C15_Witness ==
  /\ lastCap.op = "denied"
  /\ lastCap.name = "PermissionDeniedError"
  /\ captureError = MICROPHONE_ACCESS_DENIED
  /\ ~isRecording
  /\ \E c \in CallIds : starts[c].track = "stopped"

C16_Idle ==
  /\ ~isRecording
  /\ audioLevel = 0
  /\ duration = 0
  /\ mediaStreamRef = 0
  /\ audioContextRef = 0 /\ analyserRef = 0 /\ processorRef = 0
  /\ durationIntervalRef = 0
  /\ \A c \in CallIds : ~starts[c].interval

\* C16: stopRecording() never throws and leaves the controller idle with
\* level 0, duration 0, no stream, no pipeline node and no duration timer;
\* a second stopRecording() right after it changes nothing.
C16_StopIdempotent ==
  [][ lastCap'.op = "stop" =>
        /\ ~lastCap'.threw
        /\ C16_Idle'
        /\ lastCap'.again =>
             UNCHANGED <<isRecording, audioLevel, captureError, duration, mediaStreamRef,
                         audioContextRef, analyserRef, processorRef, durationIntervalRef,
                         starts>> ]_vars

C16_Witness ==
  /\ lastCap.op = "stop"
  /\ lastCap.again
  /\ C16_Idle
  /\ \E c \in CallIds : starts[c].track = "stopped" /\ starts[c].nodes = "closed"

\* C17: whenever stopRecording() or unmount has just run and no
\* startRecording() call is suspended at the permission request, every
\* stream that was acquired has been released, exactly once.
C17_StreamsReleased ==
  (/\ lastCap.op \in {"stop", "unmount"}
   /\ \A c \in CallIds : starts[c].st # "pending") =>
     \A c \in CallIds :
       starts[c].track # "none" => starts[c].track = "stopped" /\ starts[c].stops = 1

\* C18: while the controller is recording and a sink is registered, every
\* frame delivered by the held script processor results in one sink call
\* and one update of the level.
C18_EveryFrameForwarded ==
  [][ (/\ lastCap'.op = "frame"
       /\ isRecording /\ mounted /\ sinkRegistered
       /\ lastCap'.call = processorRef) =>
        lastCap'.sunk /\ lastCap'.levelSet ]_vars

C19_Failed ==
  /\ mounted /\ isRecording
  /\ mediaStreamRef # 0
  /\ starts[mediaStreamRef].track = "ended"

\* C19: if the capture device fails while the controller is recording, the
\* controller eventually is idle with stream, pipeline nodes and duration
\* timer released (as long as the component stays mounted).
C19_FailureCleansUp == C19_Failed ~> (~mounted \/ C16_Idle)

\* C21: a validation of credentials with an empty or whitespace-only field
\* returns false, leaves isValid false and error non-null, opens no
\* handshake socket and issues no probe request.
C21_BlankRejectedLocally ==
  [][ (/\ lastApi'.op \in {"mount", "save", "test"}
       /\ lastApi'.creds # NullCreds
       /\ Trim(lastApi'.creds.nlsToken) = "" \/ Trim(lastApi'.creds.dashScopeKey) = "") =>
        /\ lastApi'.ret = "false"
        /\ ~isValid'
        /\ apiError' # Null
        /\ UNCHANGED validations ]_vars

C21_Witness ==
  /\ lastApi.op = "save"
  /\ lastApi.creds = [nlsToken |-> "  ", dashScopeKey |-> "key-200"]
  /\ lastApi.ret = "false"
  /\ ~isValid
  /\ ~isLoading

\* C22: when saveCredentials(c) has validated c and testConnection()
\* validates the same c after that validation completed, both validations
\* leave the same isValid and the same error.
C22_Deterministic ==
  \A v1, v2 \in ValidationIds :
    (/\ validations[v1].st = "done" /\ validations[v2].st = "done"
     /\ validations[v1].by = "save" /\ validations[v2].by = "test"
     /\ validations[v1].creds = validations[v2].creds
     /\ v1 \in validations[v2].doneBefore) =>
      /\ validations[v1].valid = validations[v2].valid
      /\ validations[v1].err = validations[v2].err

\* C23: while the hook is mounted, isLoading is true exactly when at least
\* one credential validation is in flight, also when validations overlap.
C23_InFlight == \E v \in ValidationIds : validations[v].st = "running"

C23_LoadingIffInFlight == apiMounted => (isLoading <=> C23_InFlight)

\* C24: when the store accepts the write, saveCredentials(c) of a pair with
\* non-blank fields succeeds, and getCredentials() then returns a pair equal
\* to c field for field.
C24_NonBlank(c) == TrimUnits(c.nlsToken) # <<>> /\ TrimUnits(c.dashScopeKey) # <<>>

C24_RoundTrip ==
  (/\ lastStore.op = "save"
   /\ ~lastStore.refused
   /\ C24_NonBlank(lastStore.arg[1])) =>
     /\ ~lastStore.threw
     /\ GetCredentials(localStorageItem) = lastStore.arg

\* C25: saveCredentials(c) of a pair with a whitespace-only field ends with
\* an error and leaves the credentials in the store as they were.
C25_WhitespaceOnly(c) ==
  \/ c.nlsToken # "" /\ Trim(c.nlsToken) = ""
  \/ c.dashScopeKey # "" /\ Trim(c.dashScopeKey) = ""

C25_BlankSaveRejected ==
  [][ (/\ lastApi'.op \in {"save", "saveFailed"}
       /\ C25_WhitespaceOnly(lastApi'.creds)
       /\ stored # NullCreds) =>
        /\ apiError' # Null
        /\ stored' = stored ]_vars

\* C26: encode returns exactly 2 * length(input) bytes, and bytes 2i-1 and
\* 2i hold the 16-bit code of input sample i, low byte first.
C26_Bits(x) == ToInt16(PcmSample(Clamp(x)))

C26_TwoBytesPerSample ==
  lastPcm.op = "encode" =>
    /\ Len(lastPcm.bytes) = 2 * Len(audioData)
    /\ \A i \in 1..Len(audioData) :
         /\ lastPcm.bytes[2 * i - 1] \in 0..255
         /\ lastPcm.bytes[2 * i] \in 0..255
         /\ lastPcm.bytes[2 * i - 1] + 256 * lastPcm.bytes[2 * i] = C26_Bits(audioData[i])

C26_Witness ==
  /\ lastPcm.op = "encode"
  /\ audioData = <<Number(4000), Number(-2)>>
  /\ lastPcm.bytes = <<255, 127, 224, 255>>

\* C27: the code of sample i, read back as a signed little-endian 16-bit
\* integer, is 32767 for 1.0 and for every sample above 1, -32768 for -1.0
\* and for every sample below -1, 0 for 0, and lies in -32768..32767 for
\* every sample, NaN included.
C27_Code(bytes, i) ==
  LET bits == bytes[2 * i - 1] + 256 * bytes[2 * i]
  IN  IF bits >= 32768 THEN bits - 65536 ELSE bits

C27_Boundaries ==
  lastPcm.op = "encode" =>
    \A i \in 1..Len(audioData) :
      LET x    == audioData[i]
          code == C27_Code(lastPcm.bytes, i)
      IN  /\ code \in -32768..32767
          /\ (~x.nan /\ x.q >= Unit) => code = 32767
          /\ (~x.nan /\ x.q <= -Unit) => code = -32768
          /\ (~x.nan /\ x.q = 0) => code = 0

C27_Witness ==
  /\ lastPcm.op = "encode"
  /\ audioData = <<Number(4000), NaN>>
  /\ C27_Code(lastPcm.bytes, 1) = 32767
  /\ C27_Code(lastPcm.bytes, 2) = 0

\* C28: stereoToMono(left, right) has the length of the shorter input, its
\* element i is (left[i] + right[i]) / 2, and it stays within [-1, 1] when
\* both inputs do.
C28_InRange(data) == \A i \in 1..Len(data) : ~data[i].nan /\ data[i].q \in -Unit..Unit

C29_AllNumbers(data) == \A i \in 1..Len(data) : ~data[i].nan
C29_AllZero(data)    == \A i \in 1..Len(data) : ~data[i].nan /\ data[i].q = 0

C29_LevelDefined ==
  lastPcm.op = "level" =>
    /\ C29_AllZero(audioData) =>
         /\ ~lastPcm.rms.nan /\ lastPcm.rms.sumSq = 0
         /\ lastPcm.level = Level(0, TRUE)
    /\ C29_AllNumbers(audioData) =>
         /\ ~lastPcm.level.nan
         /\ lastPcm.level.sixths \in 0..6
         /\ lastPcm.level.sixths = 6 => lastPcm.level.exact

\* C30: while a reconnect timer scheduled by a non-manual close is pending,
\* the hook's auto-connect effect creates no socket: the next attempt is
\* started by the timer.
C30_TimerPending == \E t \in TimerIds : timers[t] # 0

C30_NoAttemptAheadOfTimer ==
  [][ (C30_TimerPending /\ lastOp'.op = "effect") => sockets' = sockets ]_vars

\* C31: every pending reconnect timer is the one whose handle the channel
\* holds, so at most one is pending and disconnect() cancels them all.
C31_HeldHandleNamesEveryTimer ==
  \A t \in TimerIds : timers[t] # 0 => reconnectTimeoutRef = t

\* What ws.onclose of socket s does in the state it runs in: it schedules a
\* reconnect, and it clears the handle of another socket.
C32_CloseSchedules == ~isManuallyClosedRef /\ CanRetry
C32_CloseClearsNewer(s) == wsRef # 0 /\ wsRef # s

\* C32: the close event of a socket that disconnect() closed (only
\* disconnect() aborts a connecting socket; its close event follows its
\* error event in the same task) schedules no reconnect and leaves the
\* handle of a newer socket alone.
C32_StaleCloseIsInert ==
  [][\A s \in Slots :
       (sockets[s] = "ABORTING" /\ closeDue' = s)
         => (~C32_CloseSchedules /\ ~C32_CloseClearsNewer(s))']_vars

\* C33: connectionState is connected exactly when the held handle names an
\* open socket (which is when sendAudio transmits its frame).
C33_ConnectedIffHeldSocketOpen ==
  (connectionState = "connected") <=> (CanSend /\ SendTransmits(wsRef))

\* C34: the reconnect attempt counter stays between 0 and the configured
\* attempt ceiling.
C34_AttemptsWithinCeiling ==
  reconnectAttemptsRef \in 0..maxAttempts

\* C35: when the permission is granted to a startRecording() call that was
\* suspended while stopRecording() or unmount ran, the controller does not
\* enter recording and does not keep the granted stream.
C35_GrantAfterStopIsDropped ==
  [][ (/\ lastCap.op \in {"stop", "unmount"}
       /\ lastCap'.op = "granted") =>
        /\ ~isRecording'
        /\ mediaStreamRef' # lastCap'.call
        /\ starts'[lastCap'.call].track # "live" ]_vars

\* C36: every parsed inbound message is observed by the consumer exactly
\* once: whenever the consumer's effect has caught up with lastMessage, it
\* has appended one transcript entry per transcript message that arrived.
C36_EveryMessageObserved ==
  (tracing = "inbound" /\ effectSeen = arrival.last) =>
    transcript = [i \in 1..arrival.count |-> i]

\* The validations submitted so far; they are numbered in submission order.
C37_Submitted == {v \in ValidationIds : validations[v].st # "none"}

\* C37: when overlapping validations of non-blank credentials have all
\* completed, isValid and error are those of the validation submitted last.
C37_LastSubmittedWins ==
  (/\ lastApi.op = "complete"
   /\ C37_Submitted # {}
   /\ \A v \in C37_Submitted : validations[v].st = "done"
   /\ \A c \in offered : ~IsBlank(c)) =>
     LET latest == CHOOSE v \in C37_Submitted : \A w \in C37_Submitted : w <= v
         creds  == validations[latest].creds
     IN  /\ isValid = (/\ Handshake(creds.nlsToken) = "open"
                       /\ Probe(creds.dashScopeKey) # "401")
         /\ ~isValid => apiError # Null

C38_AuthInFlight == \E h \in HandlerIds : handlers[h].pc \in {"nls", "ds", "init"}

\* C38: when the reply to an auth message is auth_error the session is not
\* authenticated afterwards, and once no auth message is being handled
\* isAuthenticated is true only if auth_success has been sent.
C38_AuthErrorLeavesUnauthenticated ==
  [][ /\ lastSrv'.reply = "auth_error" => ~sessionState'.isAuthenticated
      /\ (sessionState'.isAuthenticated /\ ~C38_AuthInFlight') => sentAuthSuccess' ]_vars

\* C39: an audio frame or a summary_request received before auth_success
\* has been sent is answered with AUTH_REQUIRED and reaches no backend.
C39_BackendOnlyAfterAuthSuccess ==
  (lastSrv.op \in {"audio", "summary_request"} /\ ~sentAuthSuccess) =>
    lastSrv.reply = "AUTH_REQUIRED" /\ ~lastSrv.backend

\* C40: the stored session list has no duplicates and at most the capacity
\* in entries, and is ordered newest-first by the add call that inserted
\* each entry (an add of an id already in the list inserts nothing); an add
\* of a new id to a full list evicts the oldest entry, and an add of an id
\* already in the list leaves the list as it was.
C40_List == getSessions(sessionsItem)

C40_Reverse(order) == [i \in 1..Len(order) |-> order[Len(order) + 1 - i]]

C40_SessionList ==
  /\ \A i, j \in 1..Len(C40_List) : i # j => C40_List[i] # C40_List[j]
  /\ Len(C40_List) <= MaxStoredSessions
  /\ C40_List = C40_Reverse(inserted)
  /\ (lastList.op = "add" /\ ~lastList.threw) =>
       IF Includes(lastList.before, lastList.id)
       THEN C40_List = lastList.before
       ELSE IF Len(lastList.before) = MaxStoredSessions
            THEN C40_List = <<lastList.id>> \o SubSeq(lastList.before, 1, MaxStoredSessions - 1)
            ELSE C40_List = <<lastList.id>> \o lastList.before

C40_Witness ==
  /\ lastList.op = "add" /\ ~lastList.threw
  /\ Len(lastList.before) = MaxStoredSessions
  /\ ~Includes(lastList.before, lastList.id)
  /\ lastList.id = <<65, 34>>
  /\ C40_List[1] = <<65, 34>>
  /\ Len(C40_List) = MaxStoredSessions
  /\ inserted[1] # lastList.before[MaxStoredSessions]
====
